---------------------------- MODULE Spec2Model ----------------------------
(* Model of excel-extractor: the validation-list resolver of both backends *)
(* (src/extractor.py, src/openpyxl_extractor.py) and the full-detail       *)
(* sheet/workbook walker.                                                  *)
(*                                                                         *)
(* Text is a sequence of lexemes.  The lexemes the code tests for are the  *)
(* single characters  = " , ! : [ ] ' and the blank; a cell reference      *)
(* (A1 .. B3) and a letter are one lexeme each and hold none of them.      *)
EXTENDS Naturals, Integers, Sequences, FiniteSets, TLC

VARIABLES backend, formula1, vtype, wb, evalAddr, pc, resolved, validation,
          sheets, mode, sheetArg, worksheet, out,
          app, book, faults, exc,
          depFormula, deps,
          column, remaining, letters,
          data, inputStem, makeNdjson, fileSystem, indexRows, exit,
          rawName, safeName, args, reads

vars == <<backend, formula1, vtype, wb, evalAddr, pc, resolved, validation,
          sheets, mode, sheetArg, worksheet, out,
          app, book, faults, exc,
          depFormula, deps,
          column, remaining, letters,
          data, inputStem, makeNdjson, fileSystem, indexRows, exit,
          rawName, safeName, args, reads>>

resolverVars == <<backend, formula1, vtype, wb, evalAddr, pc, resolved, validation>>

walkerVars == <<sheets, mode, sheetArg, worksheet, out>>

\* the rule under resolution, without the engine and the position
ruleVars == <<formula1, vtype, wb, evalAddr, resolved, validation>>

\* the session of cli.py main
sessionVars == <<app, book, faults, exc, args, reads>>

\* the formula whose references are parsed
depsVars == <<depFormula, deps>>

\* the column number under conversion
columnVars == <<column, remaining, letters>>

\* the run of _convert_impl.py convert
convertVars == <<data, inputStem, makeNdjson, fileSystem, indexRows, exit,
                 rawName, safeName>>

laterVars == <<sessionVars, depsVars, columnVars, convertVars>>

\* no command line parsed
NoArgs ==
  [full |-> FALSE, all_sheets |-> FALSE, dependencies |-> FALSE,
   range |-> FALSE, sheet |-> <<>>]

IdleSession ==
  /\ app = "none" /\ book = "none" /\ faults = {} /\ exc = "none"
  /\ args = NoArgs /\ reads = {}

IdleDeps == depFormula = <<>> /\ deps = <<>>

IdleColumn == column = 0 /\ remaining = 0 /\ letters = <<>>

IdleConvert ==
  /\ data = <<>> /\ inputStem = <<>> /\ makeNdjson = FALSE
  /\ fileSystem = <<>> /\ indexRows = <<>> /\ exit = "none"
  /\ rawName = <<>> /\ safeName = <<>>

Backends == {"xlwings", "openpyxl"}

(* ------------------------------------------------------------------ *)
(* Bounds                                                              *)
(* ------------------------------------------------------------------ *)

\* longest source enumerated exhaustively over Alphabet
MaxLen == 4

\* longest name-like source enumerated over NameAlphabet
MaxNameLen == 3

\* longest formula enumerated over FormulaChars
MaxFormulaLen == 5

\* largest column number converted: the last column of a sheet
MaxColumn == 16384

\* longest sheet name enumerated over SheetNameChars
MaxSheetNameLen == 4

\* most characters by which an enumerated name passes the cut at NameLimit
MaxOverLen == 3

\* most cells of the first sheet of a converted JSON
MaxCells == 2

(* ------------------------------------------------------------------ *)
(* Python values                                                       *)
(* ------------------------------------------------------------------ *)

None == [t |-> "none", n |-> 0, s |-> <<>>]

Num(k) == [t |-> "num", n |-> k, s |-> <<>>]

Str(txt) == [t |-> "str", n |-> 0, s |-> txt]

Bool(b) == [t |-> "bool", n |-> IF b THEN 1 ELSE 0, s |-> <<>>]

\* an Optional[List]: a list, None, or an exception on its way up
ListOf(items) == [tag |-> "list", items |-> items]

NoList == [tag |-> "none", items |-> <<>>]

Raised == [tag |-> "raise", items |-> <<>>]

(* ------------------------------------------------------------------ *)
(* Python string operations on lexeme sequences                        *)
(* ------------------------------------------------------------------ *)

Contains(s, c) == \E i \in 1..Len(s) : s[i] = c

StartsWith(s, c) == Len(s) >= 1 /\ s[1] = c

EndsWith(s, c) == Len(s) >= 1 /\ s[Len(s)] = c

RECURSIVE LStrip(_, _)
LStrip(s, C) == IF s # <<>> /\ Head(s) \in C THEN LStrip(Tail(s), C) ELSE s

RECURSIVE RStrip(_, _)
RStrip(s, C) ==
  IF s # <<>> /\ s[Len(s)] \in C THEN RStrip(SubSeq(s, 1, Len(s) - 1), C) ELSE s

\* str.strip() with no argument strips whitespace; str.strip("'") strips quotes
StripSet(s, C) == RStrip(LStrip(s, C), C)

Strip(s) == StripSet(s, {" "})

StripApos(s) == StripSet(s, {"'"})

\* index of the first occurrence of c in s, 0 when absent
RECURSIVE FindFrom(_, _, _)
FindFrom(s, c, i) ==
  IF i > Len(s) THEN 0 ELSE IF s[i] = c THEN i ELSE FindFrom(s, c, i + 1)

Find(s, c) == FindFrom(s, c, 1)

\* s.split(c, 1)[0] and s.split(c, 1)[1], for s that contains c
SplitHead(s, c) == SubSeq(s, 1, Find(s, c) - 1)

SplitRest(s, c) == SubSeq(s, Find(s, c) + 1, Len(s))

\* s.split(c): always at least one piece
RECURSIVE Split(_, _)
Split(s, c) ==
  IF ~Contains(s, c) THEN <<s>>
  ELSE <<SplitHead(s, c)>> \o Split(SplitRest(s, c), c)

RECURSIVE RemoveAll(_, _)
RemoveAll(s, c) ==
  IF s = <<>> THEN <<>>
  ELSE IF Head(s) = c THEN RemoveAll(Tail(s), c)
  ELSE <<Head(s)>> \o RemoveAll(Tail(s), c)

LowerChar(c) ==
  CASE c = "N" -> "n"
    [] c = "M" -> "m"
    [] c = "K" -> "k"
    [] c = "C" -> "c"
    [] c = "S" -> "s"
    [] c = "T" -> "t"
    [] c = "A1" -> "a1"
    [] c = "A2" -> "a2"
    [] c = "A3" -> "a3"
    [] c = "B1" -> "b1"
    [] c = "B2" -> "b2"
    [] c = "B3" -> "b3"
    [] OTHER -> c

Lower(s) == [i \in 1..Len(s) |-> LowerChar(s[i])]

\* n.replace(" ", "").lower()
NormName(s) == Lower(RemoveAll(s, " "))

(* ------------------------------------------------------------------ *)
(* The workbook: sheets with a cell grid, defined names, tables        *)
(* ------------------------------------------------------------------ *)

GridRows == 1..3

GridCols == 1..2

Coords == GridRows \X GridCols

CellRefs ==
  [A1 |-> <<1, 1>>, A2 |-> <<2, 1>>, A3 |-> <<3, 1>>,
   B1 |-> <<1, 2>>, B2 |-> <<2, 2>>, B3 |-> <<3, 2>>]

IsCellRef(c) == c \in DOMAIN CellRefs

Rect(a, b) ==
  [minRow |-> IF a[1] < b[1] THEN a[1] ELSE b[1],
   maxRow |-> IF a[1] < b[1] THEN b[1] ELSE a[1],
   minCol |-> IF a[2] < b[2] THEN a[2] ELSE b[2],
   maxCol |-> IF a[2] < b[2] THEN b[2] ELSE a[2]]

\* the address the library accepts: one cell, or cell:cell
WellFormed(addr) ==
  \/ Len(addr) = 1 /\ IsCellRef(addr[1])
  \/ Len(addr) = 3 /\ IsCellRef(addr[1]) /\ addr[2] = ":" /\ IsCellRef(addr[3])

ParseRect(addr) ==
  IF Len(addr) = 1 THEN Rect(CellRefs[addr[1]], CellRefs[addr[1]])
  ELSE Rect(CellRefs[addr[1]], CellRefs[addr[3]])

RectRows(r) == r.maxRow - r.minRow + 1

RectCols(r) == r.maxCol - r.minCol + 1

\* index of the sheet called name, 0 when the workbook has none
SheetIndex(w, name) ==
  IF \E i \in 1..Len(w.sheetNames) : w.sheetNames[i] = name
  THEN CHOOSE i \in 1..Len(w.sheetNames) : w.sheetNames[i] = name
  ELSE 0

\* the values of one row of a rectangle, left to right
RowValues(w, si, r, row) ==
  [j \in 1..RectCols(r) |-> w.grid[si][<<row, r.minCol + j - 1>>]]

\* the values of a rectangle, row-major
RECURSIVE RowMajorFrom(_, _, _, _)
RowMajorFrom(w, si, r, row) ==
  IF row > r.maxRow THEN <<>>
  ELSE RowValues(w, si, r, row) \o RowMajorFrom(w, si, r, row + 1)

RowMajor(w, si, r) == RowMajorFrom(w, si, r, r.minRow)

(* ------------------------------------------------------------------ *)
(* Python lists as the libraries hand them over                        *)
(* ------------------------------------------------------------------ *)

Scalar(v) == [isList |-> FALSE, v |-> v, items |-> <<>>]

Nested(items) == [isList |-> TRUE, v |-> None, items |-> items]

PyScalar(v) == [isList |-> FALSE, v |-> v, elems |-> <<>>]

PyList(elems) == [isList |-> TRUE, v |-> None, elems |-> elems]

\* xlwings Range.value: a scalar for one cell, a flat list for one row or
\* one column, a list of row lists otherwise
XlRangeValue(w, si, r) ==
  IF RectRows(r) = 1 /\ RectCols(r) = 1
  THEN PyScalar(w.grid[si][<<r.minRow, r.minCol>>])
  ELSE IF RectRows(r) = 1 \/ RectCols(r) = 1
  THEN PyList([k \in 1..Len(RowMajor(w, si, r)) |-> Scalar(RowMajor(w, si, r)[k])])
  ELSE PyList([k \in 1..RectRows(r) |-> Nested(RowValues(w, si, r, r.minRow + k - 1))])

RECURSIVE DropNone(_)
DropNone(items) ==
  IF items = <<>> THEN <<>>
  ELSE IF Head(items) = None THEN DropNone(Tail(items))
  ELSE <<Head(items)>> \o DropNone(Tail(items))

\* extractor.py _flatten_to_list: the loop over the rows of a list
RECURSIVE FlattenToListRows(_)
FlattenToListRows(elems) ==
  IF elems = <<>> THEN <<>>
  ELSE LET row == Head(elems)
       IN (IF row.isList THEN DropNone(row.items)
           ELSE IF row.v # None THEN <<row.v>> ELSE <<>>)
          \o FlattenToListRows(Tail(elems))

FlattenToList(vals) ==
  IF vals.isList THEN FlattenToListRows(vals.elems)
  ELSE IF vals.v # None THEN <<vals.v>>
  ELSE <<>>

\* openpyxl_extractor.py _flatten_values: the loop over the elements of a list
RECURSIVE FlattenValuesRows(_)
FlattenValuesRows(elems) ==
  IF elems = <<>> THEN <<>>
  ELSE LET r == Head(elems)
       IN (IF r.isList THEN DropNone(r.items) ELSE <<r.v>>)
          \o FlattenValuesRows(Tail(elems))

FlattenValues(vals) ==
  IF ~vals.isList /\ vals.v = None THEN <<>>
  ELSE IF vals.isList THEN FlattenValuesRows(vals.elems)
  ELSE <<vals.v>>

\* extractor.py _values_from_range_on_sheet; si = 0 is a sheet that is not there
ValuesFromRangeOnSheet(w, si, addr) ==
  IF si = 0 \/ ~WellFormed(addr) THEN NoList
  ELSE ListOf(FlattenToList(XlRangeValue(w, si, ParseRect(addr))))

\* openpyxl_extractor.py _values_from_range: vals is the flat list of c.value
ValuesFromRange(w, si, ref) ==
  IF si = 0 \/ ~WellFormed(ref) THEN NoList
  ELSE LET cells == RowMajor(w, si, ParseRect(ref))
       IN ListOf(FlattenValues(PyList([k \in 1..Len(cells) |-> Scalar(cells[k])])))

(* ------------------------------------------------------------------ *)
(* Named ranges and table columns                                      *)
(* ------------------------------------------------------------------ *)

StripEq(f) == IF StartsWith(f, "=") THEN Tail(f) ELSE f

IsRangeText(f) == Contains(f, "!") \/ Contains(f, ":")

\* sheet_name.strip().strip("'") of the text before the first '!'
SheetPart(f) == StripApos(Strip(SplitHead(f, "!")))

AddrPart(f) == IF Contains(f, "!") THEN SplitRest(f, "!") ELSE f

\* Evaluate() of the live application: ev.found says whether it gave a range
\* back; the cells of that range are then read from sheet si
EvaluatedValues(w, si, ev) ==
  IF ev.found /\ si # 0 /\ WellFormed(ev.addr)
  THEN ListOf(FlattenToList(XlRangeValue(w, si, ParseRect(ev.addr))))
  ELSE NoList

\* extractor.py _try_resolve_named_range, lines 378-390: the first sheet on
\* which the evaluated address can be read
RECURSIVE EvalOnSheets(_, _, _)
EvalOnSheets(w, ev, si) ==
  IF si > Len(w.sheetNames) THEN NoList
  ELSE IF EvaluatedValues(w, si, ev).tag = "list" THEN EvaluatedValues(w, si, ev)
  ELSE EvalOnSheets(w, ev, si + 1)

\* the comparison of extractor.py line 363
XlNameMatches(n, target) == NormName(n) = NormName(target)

\* extractor.py _try_resolve_named_range, the body of the loop for names i..
RECURSIVE XlNamedFrom(_, _, _, _, _)
XlNamedFrom(w, cur, target, ev, i) ==
  IF i > Len(w.names) THEN NoList
  ELSE LET nm == w.names[i]
           f == StripEq(nm.refers_to)
       IN IF nm.name = <<>> \/ ~XlNameMatches(nm.name, target) \/ nm.refers_to = <<>>
          THEN XlNamedFrom(w, cur, target, ev, i + 1)
          ELSE IF IsRangeText(f)
          THEN IF Contains(f, "!") /\ SheetPart(f) # <<>>
               THEN IF SheetIndex(w, SheetPart(f)) = 0 THEN Raised
                    ELSE ValuesFromRangeOnSheet(w, SheetIndex(w, SheetPart(f)), AddrPart(f))
               ELSE ValuesFromRangeOnSheet(w, cur, AddrPart(f))
          ELSE IF EvalOnSheets(w, ev, 1).tag = "list" THEN EvalOnSheets(w, ev, 1)
          ELSE XlNamedFrom(w, cur, target, ev, i + 1)

\* a try/except Exception: return None around a helper's body
CatchNone(r) == IF r.tag = "raise" THEN NoList ELSE r

\* w.namesFault: reading the names of the workbook raises
TryResolveNamedRange(w, cur, name, ev) ==
  CatchNone(IF w.namesFault THEN Raised
            ELSE XlNamedFrom(w, cur, StripApos(Strip(name)), ev, 1))

\* openpyxl: wb.defined_names.get(name), a lookup by key
OpxNameMatches(n, name) == n = name

OpxFindName(w, name) ==
  IF \E i \in 1..Len(w.names) : OpxNameMatches(w.names[i].name, name)
  THEN CHOOSE i \in 1..Len(w.names) :
         /\ OpxNameMatches(w.names[i].name, name)
         /\ \A j \in 1..(i - 1) : ~OpxNameMatches(w.names[j].name, name)
  ELSE 0

\* openpyxl_extractor.py _resolve_named_range, the body of its try block;
\* dn.destinations holds one (sheet title, coordinates) pair when the target
\* is Sheet!range, and wb[title] raises for an unknown sheet
OpxNamedBody(w, name) ==
  LET i == OpxFindName(w, name)
      f == StripEq(w.names[i].refers_to)
  IN IF w.namesFault THEN Raised
     ELSE IF i = 0 THEN NoList
     ELSE IF ~Contains(f, "!") THEN NoList
     ELSE IF SheetIndex(w, StripApos(SplitHead(f, "!"))) = 0 THEN Raised
     ELSE ValuesFromRange(w, SheetIndex(w, StripApos(SplitHead(f, "!"))), SplitRest(f, "!"))

ResolveNamedRange(w, name) == CatchNone(OpxNamedBody(w, name))

HasBrackets(f) == Contains(f, "[") /\ Contains(f, "]")

TableName(text) == SplitHead(text, "[")

ColumnName(text) ==
  LET rest == SplitRest(text, "[")
  IN IF Contains(rest, "]") THEN SplitHead(rest, "]") ELSE rest

\* position of col in the sequence cols, 0 when absent
IndexOf(cols, col) ==
  IF \E k \in 1..Len(cols) : cols[k] = col
  THEN CHOOSE k \in 1..Len(cols) : cols[k] = col /\ \A j \in 1..(k - 1) : cols[j] # col
  ELSE 0

\* the rows below the header, in one column of the table
ColumnBody(tbl, k) ==
  [minRow |-> tbl.ref.minRow + 1, maxRow |-> tbl.ref.maxRow,
   minCol |-> tbl.ref.minCol + k - 1, maxCol |-> tbl.ref.minCol + k - 1]

\* extractor.py _try_resolve_table_column, the loops over sheets and list
\* objects; w.tables is in sheet order.  ListColumns.Item raises for an unknown
\* column and DataBodyRange is None for a table with no data row: both
\* continue with the next list object
RECURSIVE XlTableFrom(_, _, _, _)
XlTableFrom(w, tname, cname, i) ==
  IF i > Len(w.tables) THEN NoList
  ELSE LET tbl == w.tables[i]
           k == IndexOf(tbl.cols, cname)
       IN IF tbl.name = tname /\ k # 0 /\ tbl.ref.maxRow > tbl.ref.minRow
          THEN ListOf(FlattenToList(XlRangeValue(w, tbl.sheet, ColumnBody(tbl, k))))
          ELSE XlTableFrom(w, tname, cname, i + 1)

TryResolveTableColumn(w, structured_ref) ==
  LET text == StripApos(Strip(structured_ref))
  IN IF HasBrackets(text)
     THEN XlTableFrom(w, TableName(text), ColumnName(text), 1)
     ELSE NoList

\* the header row of a table as openpyxl reads it: the cell values
HeaderValues(w, tbl) ==
  RowValues(w, tbl.sheet, tbl.ref, tbl.ref.minRow)

\* openpyxl_extractor.py line 230: the rows come as tuples (values_only=True)
\* and c.value on a tuple raises, so with a data row the sheet is skipped
\* (except Exception: continue); with none the list is empty
OpxColumnValues(w, tbl, k) ==
  IF tbl.ref.maxRow > tbl.ref.minRow THEN Raised ELSE ListOf(<<>>)

RECURSIVE OpxTableFrom(_, _, _, _)
OpxTableFrom(w, tname, cname, i) ==
  IF i > Len(w.tables) THEN NoList
  ELSE LET tbl == w.tables[i]
           k == IndexOf(HeaderValues(w, tbl), Str(cname))
       IN IF tbl.name = tname /\ k # 0 /\ OpxColumnValues(w, tbl, k).tag = "list"
          THEN OpxColumnValues(w, tbl, k)
          ELSE OpxTableFrom(w, tname, cname, i + 1)

ResolveTableColumn(w, ref) ==
  IF ~HasBrackets(ref) THEN NoList
  ELSE OpxTableFrom(w, TableName(ref), ColumnName(ref), 1)

(* ------------------------------------------------------------------ *)
(* _resolve_validation_list_items, both backends                       *)
(* ------------------------------------------------------------------ *)

\* what the resolver hands back, with the branches it entered, in order
Outcome(r, tr) == [tag |-> r.tag, items |-> r.items, trace |-> tr]

\* f[1:-1] when f is wrapped in double quotes
Unquote(f) ==
  IF StartsWith(f, "\"") /\ EndsWith(f, "\"") /\ Len(f) >= 2
  THEN SubSeq(f, 2, Len(f) - 1)
  ELSE f

\* str(formula1).strip(), less a leading '=', less wrapping quotes
Normalize(text) == Unquote(StripEq(Strip(text)))

IsCommaLiteralNoBracketTest(f) ==
  Contains(f, ",") /\ ~Contains(f, "!") /\ ~Contains(f, ":")

IsCommaLiteral(f) ==
  Contains(f, ",") /\ ~Contains(f, "!") /\ ~Contains(f, ":") /\ ~Contains(f, "[")

\* [item.strip() for item in f.split(",")]
LiteralItems(f) == [i \in 1..Len(Split(f, ",")) |-> Str(Strip(Split(f, ",")[i]))]

\* extractor.py lines 460-469: the last resort, Evaluate on the own sheet
XlFromEval(w, cur, f, ev, tr) ==
  Outcome(IF ev.found THEN ValuesFromRangeOnSheet(w, cur, ev.addr) ELSE NoList,
          Append(tr, "eval"))

\* extractor.py lines 456-459
XlFromNamed(w, cur, f, ev, tr) ==
  LET named_vals == TryResolveNamedRange(w, cur, f, ev)
  IN IF named_vals.tag = "list" THEN Outcome(named_vals, Append(tr, "named"))
     ELSE XlFromEval(w, cur, f, ev, Append(tr, "named"))

\* extractor.py lines 445-455; workbook.sheets[sheet_name] raises for an
\* unknown sheet
XlFromRange(w, cur, f, ev, tr) ==
  IF ~IsRangeText(f) THEN XlFromNamed(w, cur, f, ev, tr)
  ELSE LET target_sheet == IF Contains(f, "!") THEN SheetIndex(w, SheetPart(f)) ELSE cur
           vals == ValuesFromRangeOnSheet(w, target_sheet, AddrPart(f))
       IN IF Contains(f, "!") /\ target_sheet = 0 THEN Outcome(Raised, Append(tr, "range"))
          ELSE IF vals.tag = "list" THEN Outcome(vals, Append(tr, "range"))
          ELSE XlFromNamed(w, cur, f, ev, Append(tr, "range"))

\* openpyxl_extractor.py lines 273-276
OpxFromNamed(w, cur, f, tr) ==
  Outcome(ResolveNamedRange(w, f), Append(tr, "named"))

\* openpyxl_extractor.py lines 262-272; ws.parent[...] raises for an unknown sheet
OpxFromRange(w, cur, f, tr) ==
  IF ~IsRangeText(f) THEN OpxFromNamed(w, cur, f, tr)
  ELSE LET ws_target == IF Contains(f, "!") THEN SheetIndex(w, SheetPart(f)) ELSE cur
           vals == ValuesFromRange(w, ws_target, AddrPart(f))
       IN IF Contains(f, "!") /\ ws_target = 0 THEN Outcome(Raised, Append(tr, "range"))
          ELSE IF vals.tag = "list" THEN Outcome(vals, Append(tr, "range"))
          ELSE OpxFromNamed(w, cur, f, Append(tr, "range"))

StopAfterTableMiss(b, w, cur, f, ev, tr) == Outcome(NoList, tr)

\* after a table lookup that gave None (extractor.py lines 443-445,
\* openpyxl_extractor.py lines 260-262): the chain goes on
AfterTableMiss(b, w, cur, f, ev, tr) ==
  IF b = "xlwings" THEN XlFromRange(w, cur, f, ev, tr) ELSE OpxFromRange(w, cur, f, tr)

\* the structured-reference branch (extractor.py 440-444, openpyxl 257-261)
FromTable(b, w, cur, f, ev, tr) ==
  IF ~HasBrackets(f) THEN AfterTableMiss(b, w, cur, f, ev, tr)
  ELSE LET res == IF b = "xlwings" THEN TryResolveTableColumn(w, f)
                  ELSE ResolveTableColumn(w, f)
       IN IF res.tag = "list" THEN Outcome(res, Append(tr, "table"))
          ELSE AfterTableMiss(b, w, cur, f, ev, Append(tr, "table"))

\* the body of the try block, for the normalized text f
ResolveBody(b, w, cur, f, ev) ==
  IF IsCommaLiteral(f) THEN Outcome(ListOf(LiteralItems(f)), <<"literal">>)
  ELSE FromTable(b, w, cur, f, ev, <<>>)

NoGuard(o) == o

\* except Exception: return None (extractor.py 470-471, openpyxl 277-278)
Guard(o) == IF o.tag = "raise" THEN [o EXCEPT !.tag = "none"] ELSE o

Falsy(fm) == fm.isNone \/ fm.text = <<>>

ResolveValidationListItems(b, w, cur, fm, ev) ==
  IF Falsy(fm) THEN Outcome(NoList, <<>>)
  ELSE Guard(ResolveBody(b, w, cur, Normalize(fm.text), ev))

(* ------------------------------------------------------------------ *)
(* The validation record of a cell                                     *)
(* ------------------------------------------------------------------ *)

\* the kinds of validation rule a cell may carry; "absent" is no rule
ValidationKinds == {"list", "whole", "custom", "absent"}

\* Validation.Type of the live application (xlValidateList is 3)
XlTypeOf(vt) == CASE vt = "list" -> 3 [] vt = "whole" -> 1 [] OTHER -> 7

\* type_name_map of extractor.py lines 292-301
XlTypeName(n) ==
  CASE n = 3 -> "xlValidateList"
    [] n = 1 -> "xlValidateWholeNumber"
    [] OTHER -> "xlValidateCustom"

NotCalled == [tag |-> "notcalled", items |-> <<>>, trace |-> <<>>]

NoValidation ==
  [present |-> FALSE, type_name |-> "", formula1 |-> [isNone |-> TRUE, text |-> <<>>],
   hasListItems |-> FALSE, list_items |-> <<>>]

ValidationRecord(tn, fm, o) ==
  [present |-> TRUE, type_name |-> tn, formula1 |-> fm,
   hasListItems |-> (o.tag = "list"),
   list_items |-> IF o.tag = "list" THEN o.items ELSE <<>>]

\* the resolver's answer inside _get_cell_validation / _data_validation_for_cell
ResolverCall(b, vt, w, cur, fm, ev) ==
  IF vt = "list" THEN ResolveValidationListItems(b, w, cur, fm, ev) ELSE NotCalled

\* extractor.py _get_cell_validation: v.Type raises when the cell has no
\* rule; any exception, also one out of the resolver, gives None
XlCellValidation(vt, fm, o) ==
  IF vt = "absent" \/ o.tag = "raise" THEN NoValidation
  ELSE ValidationRecord(XlTypeName(XlTypeOf(vt)), fm, o)

\* openpyxl_extractor.py _data_validation_for_cell, for the one rule whose
\* sqref holds the cell: an exception skips the rule (continue) and the
\* loop ends with None
OpxCellValidation(vt, fm, o) ==
  IF vt = "absent" \/ o.tag = "raise" THEN NoValidation
  ELSE ValidationRecord(vt, fm, o)

(* ------------------------------------------------------------------ *)
(* Inputs                                                              *)
(* ------------------------------------------------------------------ *)

\* all sequences over S of length at most n
SeqsUpTo(S, n) == UNION {[1..k -> S] : k \in 0..n}

Alphabet == {"=", "\"", ",", "!", ":", "[", "]", " ", "A1", "A2", "N", "S"}

NameAlphabet == {"N", "n", "M", "m", " "}

\* items of a comma-separated source
Items ==
  {<<"N">>, <<" ", "K", " ">>, <<>>, <<"A1", ":", "A2">>, <<"K", "[", "C", "]">>,
   <<"T", "!", "A1", ":", "A3">>, <<"Z", "!", "A1">>}

\* most items of a structured source
MaxItems == 3

RECURSIVE Join(_)
Join(its) ==
  IF Len(its) = 1 THEN its[1] ELSE its[1] \o <<",">> \o Join(Tail(its))

Wrap(eq, q, body) ==
  (IF eq THEN <<"=">> ELSE <<>>)
  \o (IF q THEN <<"\"">> ELSE <<>>) \o body \o (IF q THEN <<"\"">> ELSE <<>>)

StructuredSources ==
  {Wrap(eq, q, Join(its)) :
     eq \in BOOLEAN, q \in BOOLEAN, its \in (SeqsUpTo(Items, MaxItems) \ {<<>>})}

Text(t) == [isNone |-> FALSE, text |-> t]

NoFormula == [isNone |-> TRUE, text |-> <<>>]

\* sheet S: a table K over A1:B3 with the header cells C and D
GridS ==
  [c \in Coords |->
     CASE c = <<1, 1>> -> Str(<<"C">>)
       [] c = <<1, 2>> -> Str(<<"D">>)
       [] c = <<2, 1>> -> Num(10)
       [] c = <<3, 1>> -> None
       [] c = <<2, 2>> -> Num(20)
       [] OTHER -> Num(30)]

\* sheet T
GridT ==
  [c \in Coords |->
     CASE c = <<1, 1>> -> Num(10)
       [] c = <<2, 1>> -> None
       [] c = <<3, 1>> -> Num(30)
       [] c = <<2, 2>> -> Num(20)
       [] OTHER -> None]

TableK ==
  [sheet |-> 1, name |-> <<"K">>, cols |-> << <<"C">>, <<"D">> >>,
   ref |-> [minRow |-> 1, maxRow |-> 3, minCol |-> 1, maxCol |-> 2]]

NameN == [name |-> <<"N">>, refers_to |-> <<"=", "T", "!", "A1", ":", "A3">>]

Workbook0 ==
  [sheetNames |-> << <<"S">>, <<"T">> >>,
   grid |-> <<GridS, GridT>>,
   names |-> <<NameN>>,
   namesFault |-> FALSE,
   tables |-> <<TableK>>]

NoEval == [found |-> FALSE, addr |-> <<>>]

\* what Evaluate may answer; the file-parsing backend has no Evaluate
EvalChoices(b) ==
  IF b = "xlwings" THEN {NoEval, [found |-> TRUE, addr |-> <<"A2", ":", "B2">>]}
  ELSE {NoEval}

CellValues == {None, Num(10), Num(30)}

RangeSources ==
  {<<"T", "!", "A1", ":", "A3">>, <<"T", "!", "A1", ":", "B2">>, <<"T", "!", "B2">>,
   <<"=", "T", "!", "A1", ":", "B1">>, <<"T", "!", "B3", ":", "A1">>}

DefinedNames == {<<"N", "M">>, <<"n", "m">>, <<"N">>}

RefersTo ==
  {<<"=", "T", "!", "A1", ":", "A3">>, <<"=", "S", "!", "B2">>, <<"=", "A1">>}

\* the own sheet of the validated cell (self.worksheet): S
CurrentSheet == SheetIndex(Workbook0, <<"S">>)

IdleWalker ==
  /\ sheets = <<>>
  /\ mode = "idle"
  /\ sheetArg = <<>>
  /\ worksheet = 0
  /\ out = <<>>

\* every source over Alphabet up to MaxLen, and an absent source
InitDispatch ==
  /\ wb = Workbook0
  /\ vtype = "list"
  /\ formula1 \in {Text(t) : t \in SeqsUpTo(Alphabet, MaxLen)} \cup {NoFormula}

\* comma lists of items, with and without '=' and quotes
InitStructured ==
  /\ wb = Workbook0
  /\ vtype = "list"
  /\ formula1 \in {Text(t) : t \in StructuredSources}

\* a range source over every content of sheet T
InitRange ==
  /\ \E g \in [Coords -> CellValues] : wb = [Workbook0 EXCEPT !.grid[2] = g]
  /\ vtype = "list"
  /\ formula1 \in {Text(t) : t \in RangeSources}

\* a name-like source against a workbook with one defined name
InitNames ==
  /\ \E n \in DefinedNames, r \in RefersTo :
       wb = [Workbook0 EXCEPT !.names = <<[name |-> n, refers_to |-> r]>>]
  /\ vtype = "list"
  /\ formula1 \in {Text(t) : t \in SeqsUpTo(NameAlphabet, MaxNameLen)}

\* rules of the other kinds, and no rule
InitKinds ==
  /\ wb \in {Workbook0, [Workbook0 EXCEPT !.namesFault = TRUE]}
  /\ vtype \in ValidationKinds
  /\ formula1 \in {NoFormula, Text(<<"N">>), Text(<<"Z", "!", "A1">>), Text(<<"N", ",", "K">>)}

Init ==
  /\ backend \in Backends
  /\ evalAddr \in EvalChoices(backend)
  /\ InitDispatch \/ InitStructured \/ InitRange \/ InitNames \/ InitKinds
  /\ pc = "ready"
  /\ resolved = NotCalled
  /\ validation = NoValidation
  /\ IdleWalker
  /\ IdleSession /\ IdleDeps /\ IdleColumn /\ IdleConvert

\* extractor.py _get_cell_validation for the cell whose rule is (vtype, formula1)
GetCellValidation ==
  /\ pc = "ready"
  /\ backend = "xlwings"
  /\ resolved' = ResolverCall(backend, vtype, wb, CurrentSheet, formula1, evalAddr)
  /\ validation' = XlCellValidation(vtype, formula1, resolved')
  /\ pc' = "done"
  /\ UNCHANGED <<backend, formula1, vtype, wb, evalAddr>>
  /\ UNCHANGED walkerVars
  /\ UNCHANGED laterVars

\* openpyxl_extractor.py _data_validation_for_cell for the same cell
DataValidationForCell ==
  /\ pc = "ready"
  /\ backend = "openpyxl"
  /\ resolved' = ResolverCall(backend, vtype, wb, CurrentSheet, formula1, evalAddr)
  /\ validation' = OpxCellValidation(vtype, formula1, resolved')
  /\ pc' = "done"
  /\ UNCHANGED <<backend, formula1, vtype, wb, evalAddr>>
  /\ UNCHANGED walkerVars
  /\ UNCHANGED laterVars

Next == GetCellValidation \/ DataValidationForCell

Spec == Init /\ [][Next]_vars

(* ------------------------------------------------------------------ *)
(* Properties of the validation-list resolver                          *)
(* ------------------------------------------------------------------ *)

\* a list-type rule with a source has been resolved
ListResolved == pc = "done" /\ vtype = "list" /\ ~Falsy(formula1)

\* the source after the leading '=' is stripped
Stripped == StripEq(Strip(formula1.text))

IsQuoted(q) == Len(q) >= 2 /\ StartsWith(q, "\"") /\ EndsWith(q, "\"")

Inner == IF IsQuoted(Stripped) THEN SubSeq(Stripped, 2, Len(Stripped) - 1) ELSE Stripped

\* the kinds of section 4.2 of the specification, in priority order
KindLiteral ==
  \/ IsQuoted(Stripped)
  \/ Contains(Inner, ",") /\ ~Contains(Inner, "!") /\ ~Contains(Inner, ":")
     /\ ~Contains(Inner, "[")

KindTableColumn == ~KindLiteral /\ Contains(Inner, "[") /\ Contains(Inner, "]")

KindRangeRef ==
  ~KindLiteral /\ ~KindTableColumn /\ (Contains(Inner, "!") \/ Contains(Inner, ":"))

KindNamedRange == ~KindLiteral /\ ~KindTableColumn /\ ~KindRangeRef

NonNull(vals) == SelectSeq(vals, LAMBDA v : v # None)

SplitTrim(txt) == [i \in 1..Len(Split(txt, ",")) |-> Str(Strip(Split(txt, ",")[i]))]

CountOf(txt, c) == Cardinality({i \in 1..Len(txt) : txt[i] = c})

LastOf(tr) == tr[Len(tr)]

InTrace(b) == \E i \in 1..Len(resolved.trace) : resolved.trace[i] = b

\* the sheet and the address of a range source
RangeSheet == IF Contains(Inner, "!") THEN SheetIndex(wb, SheetPart(Inner)) ELSE CurrentSheet

RangeAddr == AddrPart(Inner)

\* C1: a RangeRef source over a sheet and a rectangle that exist resolves, in
\* both backends, to the non-null values of the rectangle in row-major order
C1_RangeDropsNulls ==
  (ListResolved /\ KindRangeRef /\ RangeSheet # 0 /\ WellFormed(RangeAddr))
    => /\ resolved.tag = "list"
       /\ resolved.items = NonNull(RowMajor(wb, RangeSheet, ParseRect(RangeAddr)))

TableExists(text) ==
  \E i \in 1..Len(wb.tables) :
    /\ wb.tables[i].name = TableName(text)
    /\ \E k \in 1..Len(wb.tables[i].cols) : wb.tables[i].cols[k] = ColumnName(text)

\* a bracketed source that names no table column of the workbook
TableMissing ==
  /\ ListResolved
  /\ Contains(Inner, "[") /\ Contains(Inner, "]")
  /\ ~Contains(Inner, ",")
  /\ ~IsQuoted(Stripped)
  /\ ~TableExists(Inner)
  /\ ~TableExists(StripApos(Strip(Inner)))

UnknownSheet == Contains(Inner, "!") /\ SheetIndex(wb, SheetPart(Inner)) = 0

C3_QuotedIsLiteral ==
  (ListResolved /\ IsQuoted(Stripped))
    => /\ resolved.tag = "list"
       /\ resolved.trace = <<"literal">>
       /\ resolved.items = SplitTrim(Inner)

\* C4: a source that holds '[' never takes the Literal branch, and one that
\* holds a comma and both brackets enters the table lookup first
C4_BracketBeforeComma ==
  (ListResolved /\ Contains(formula1.text, "["))
    => /\ ~InTrace("literal")
       /\ (Contains(formula1.text, ",") /\ Contains(formula1.text, "]"))
            => (resolved.trace # <<>> /\ resolved.trace[1] = "table")

\* a source with a comma and both brackets, handed to the table lookup
C4_Witness ==
  /\ ListResolved
  /\ Contains(formula1.text, ",")
  /\ Contains(formula1.text, "[") /\ Contains(formula1.text, "]")
  /\ resolved.trace[1] = "table"

\* C5: a Literal source with k commas resolves to k+1 items, in source order,
\* each trimmed
C5_LiteralItems ==
  (ListResolved /\ KindLiteral)
    => /\ resolved.tag = "list"
       /\ Len(resolved.items) = CountOf(Inner, ",") + 1
       /\ \A i \in 1..Len(resolved.items) :
            resolved.items[i] = Str(Strip(Split(Inner, ",")[i]))

\* the defined names whose target is a range that can be read
TargetIsRange(nm) ==
  LET f == StripEq(nm.refers_to)
  IN /\ Contains(f, "!")
     /\ SheetIndex(wb, SheetPart(f)) # 0
     /\ WellFormed(AddrPart(f))

\* C6: a NamedRange source that equals a defined name after lower-casing and
\* removing spaces, the name's target being a range, resolves through the
\* name in both backends
C6_NameMatchInsensitive ==
  (ListResolved /\ KindNamedRange
   /\ \E i \in 1..Len(wb.names) :
        NormName(wb.names[i].name) = NormName(Inner) /\ TargetIsRange(wb.names[i]))
    => resolved.tag = "list" /\ LastOf(resolved.trace) = "named"

CellKinds == {"formula", "number", "text", "empty"}

\* the one read of a cell that raises, if any
FieldFaults ==
  {"address", "row", "column", "value", "formula", "display_text", "format",
   "hyperlink", "note", "data_validation"}

FormulaText == Str(<<"=", "A1">>)

\* xlwings Range.value: a formula cell gives its computed value
XlCellValue(c) ==
  CASE c.kind = "formula" -> Num(7)
    [] c.kind = "number" -> Num(5)
    [] c.kind = "zero" -> Num(0)
    [] c.kind = "bool" -> Bool(TRUE)
    [] c.kind = "text" -> Str(<<"x">>)
    [] OTHER -> None

\* xlwings Range.formula: the formula text, or the constant as text, or ''
XlCellFormula(c) ==
  CASE c.kind = "formula" -> FormulaText
    [] c.kind = "number" -> Str(<<"5">>)
    [] c.kind = "zero" -> Str(<<"0">>)
    [] c.kind = "bool" -> Str(<<"TRUE">>)
    [] c.kind = "text" -> Str(<<"x">>)
    [] OTHER -> Str(<<>>)

\* openpyxl cell.value with data_only=False: a formula cell gives its text
OpxCellValue(c) ==
  CASE c.kind = "formula" -> FormulaText
    [] c.kind = "number" -> Num(5)
    [] c.kind = "zero" -> Num(0)
    [] c.kind = "bool" -> Bool(TRUE)
    [] c.kind = "text" -> Str(<<"x">>)
    [] OTHER -> None

\* Python truth of a value
Truthy(v) == v # None /\ v # Str(<<>>) /\ v # Num(0)

\* a read guarded by try/except: None when it is the read that fails
Guarded(c, field, v) == IF c.fault = field THEN None ELSE v

CellRecord(row, col, value, formula, text, c) ==
  [address |-> <<row, col>>, row |-> row, column |-> col,
   value |-> value, formula |-> formula, display_text |-> text,
   number_format |-> Guarded(c, "format", Str(<<"General">>)),
   hyperlink |-> Guarded(c, "hyperlink", Str(<<"link">>)),
   note |-> Guarded(c, "note", Str(<<"note">>)),
   data_validation |-> Guarded(c, "data_validation", Str(<<"rule">>))]

\* extractor.py _extract_cell_full_details raises when cell.address, cell.row
\* or cell.column does (lines 540-543 are outside any try)
XlCellRaises(c) == c.fault \in {"address", "row", "column"}

XlFormulaField(c) ==
  LET formula == Guarded(c, "formula", XlCellFormula(c))
  IN IF Truthy(formula) THEN formula ELSE None

\* extractor.py line 544: "value": value
XlValueField(c) == Guarded(c, "value", XlCellValue(c))

XlExtractCellFullDetails(c, row, col) ==
  CellRecord(row, col, XlValueField(c), XlFormulaField(c),
             Guarded(c, "display_text", Str(<<"text">>)), c)

\* openpyxl_extractor.py _extract_cell_full_details: cell.value (line 285) and
\* cell.coordinate, cell.row, cell.column are outside any try
OpxCellRaises(c) == c.fault \in {"address", "row", "column", "value"}

OpxFormulaField(c) ==
  LET value == OpxCellValue(c)
  IN IF value.t = "str" /\ StartsWith(value.s, "=") THEN value ELSE None

OpxValueField(c) == IF Truthy(OpxFormulaField(c)) THEN None ELSE OpxCellValue(c)

OpxExtractCellFullDetails(c, row, col) ==
  CellRecord(row, col, OpxValueField(c), OpxFormulaField(c), None, c)

DropOnFailure(raises, rec) == IF raises THEN <<>> ELSE <<rec>>

\* the per-cell try/except: continue of both walkers (extractor.py 582-587,
\* openpyxl_extractor.py 308-311): a cell whose extraction raises is skipped
CellEntry(b, c, row, col) ==
  IF b = "xlwings"
  THEN DropOnFailure(XlCellRaises(c), XlExtractCellFullDetails(c, row, col))
  ELSE DropOnFailure(OpxCellRaises(c), OpxExtractCellFullDetails(c, row, col))

\* the loop over the columns col.. of the one used row
RECURSIVE WalkCells(_, _, _)
WalkCells(b, cells, col) ==
  IF col > Len(cells) THEN <<>>
  ELSE CellEntry(b, cells[col], 1, col) \o WalkCells(b, cells, col + 1)

(* ------------------------------------------------------------------ *)
(* Full-detail extraction: sheets and the workbook                     *)
(* ------------------------------------------------------------------ *)

\* how a sheet fails: "select" is a sheet that cannot be reached at all,
\* "used" one whose used range cannot be read
SheetFaults == {"select", "used"}

SheetRecord(name, error, cells, tables, rows, columns) ==
  [name |-> name, error |-> error, cells |-> cells, tables |-> tables,
   rows |-> rows, columns |-> columns]

\* the record of the except branches (extractor.py 657-664 and 676-680,
\* openpyxl_extractor.py 351)
DegradedRecord(name) == SheetRecord(Str(name), TRUE, <<>>, 0, 0, 0)

\* extractor.py extract_sheet_full_details.  get_worksheet_info swallows the
\* failure and returns {}, so the name is None; the used range read fails
\* again, twice, and leaves no rows; ListObjects is read on its own.  Nothing
\* reaches the outer except.
XlSheetFullDetails(sh) ==
  CASE sh.fault = "ok" ->
         SheetRecord(Str(sh.name), FALSE, WalkCells("xlwings", sh.cells, 1),
                     sh.ntables, 1, Len(sh.cells))
    [] sh.fault = "used" -> SheetRecord(None, FALSE, <<>>, sh.ntables, 0, 0)
    [] OTHER -> SheetRecord(None, FALSE, <<>>, 0, 0, 0)

\* openpyxl_extractor.py extract_sheet_full_details raises when _select_sheet
\* or the reads of ws.max_row / ws.max_column do
OpxSheetRaises(sh) == sh.fault # "ok"

OpxSheetFullDetails(sh) ==
  SheetRecord(Str(sh.name), FALSE, WalkCells("openpyxl", sh.cells, 1),
              sh.ntables, 1, Len(sh.cells))

\* one turn of the loop of extract_workbook_full_details
WorkbookEntry(b, sh) ==
  IF b = "xlwings" THEN XlSheetFullDetails(sh)
  ELSE IF OpxSheetRaises(sh) THEN DegradedRecord(sh.name)
  ELSE OpxSheetFullDetails(sh)

\* the sheet a name selects; an unknown name is a sheet that cannot be reached
UnknownSheetEnv(name) == [name |-> name, fault |-> "select", cells |-> <<>>, ntables |-> 0]

FindSheet(shs, name) ==
  IF \E i \in 1..Len(shs) : shs[i].name = name
  THEN shs[CHOOSE i \in 1..Len(shs) : shs[i].name = name]
  ELSE UnknownSheetEnv(name)

FindSheetIndex(shs, name) ==
  IF \E i \in 1..Len(shs) : shs[i].name = name
  THEN CHOOSE i \in 1..Len(shs) : shs[i].name = name
  ELSE 0

NoOutput == [kind |-> "none", raised |-> FALSE, sheets |-> <<>>]

\* most cells of the first sheet
MaxCols == 2

SheetArgs == {<<"S">>, <<"T">>, <<"Z">>}

CleanCells(n) == [1..n -> [kind : CellKinds, fault : {"ok"}]]

\* the cell rows with exactly one failing read
FaultyCells(n) ==
  {[cs EXCEPT ![i].fault = f] : cs \in CleanCells(n), i \in 1..n, f \in FieldFaults}

SheetEnv(name, fault, cells, ntables) ==
  [name |-> name, fault |-> fault, cells |-> cells, ntables |-> ntables]

\* a workbook of two sheets: at most one failing cell read and no failing
\* sheet, or one failing sheet and no failing cell read
InitWalk ==
  /\ backend \in Backends
  /\ \/ \E c1 \in CleanCells(MaxCols) \cup FaultyCells(MaxCols), c2 \in CleanCells(1) :
          sheets = <<SheetEnv(<<"S">>, "ok", c1, 1), SheetEnv(<<"T">>, "ok", c2, 0)>>
     \/ \E c1 \in CleanCells(MaxCols), c2 \in FaultyCells(1) :
          sheets = <<SheetEnv(<<"S">>, "ok", c1, 1), SheetEnv(<<"T">>, "ok", c2, 0)>>
     \/ \E c1 \in CleanCells(MaxCols), c2 \in CleanCells(1), f \in SheetFaults :
          \/ sheets = <<SheetEnv(<<"S">>, f, c1, 1), SheetEnv(<<"T">>, "ok", c2, 0)>>
          \/ sheets = <<SheetEnv(<<"S">>, "ok", c1, 1), SheetEnv(<<"T">>, f, c2, 0)>>
  /\ \/ mode = "workbook" /\ sheetArg = <<>>
     \/ mode = "sheet" /\ sheetArg \in SheetArgs
  /\ worksheet = 0
  /\ out = NoOutput
  /\ formula1 = NoFormula
  /\ vtype = "absent"
  /\ wb = Workbook0
  /\ evalAddr = NoEval
  /\ pc = "idle"
  /\ resolved = NotCalled
  /\ validation = NoValidation
  /\ IdleSession /\ IdleDeps /\ IdleColumn /\ IdleConvert

\* extract_workbook_full_details of either backend (cli.py line 40)
ExtractWorkbookFullDetails ==
  /\ mode = "workbook"
  /\ out = NoOutput
  /\ out' = [kind |-> "workbook", raised |-> FALSE,
             sheets |-> [i \in 1..Len(sheets) |-> WorkbookEntry(backend, sheets[i])]]
  /\ worksheet' = Len(sheets)
  /\ UNCHANGED <<sheets, mode, sheetArg>>
  /\ UNCHANGED resolverVars
  /\ UNCHANGED laterVars

\* extractor.py extract_sheet_full_details(args.sheet) (cli.py line 42)
XlExtractSheetFullDetails ==
  /\ mode = "sheet"
  /\ backend = "xlwings"
  /\ out = NoOutput
  /\ out' = [kind |-> "sheet", raised |-> FALSE,
             sheets |-> <<XlSheetFullDetails(FindSheet(sheets, sheetArg))>>]
  /\ worksheet' = IF FindSheet(sheets, sheetArg).fault = "select" THEN worksheet
                  ELSE FindSheetIndex(sheets, sheetArg)
  /\ UNCHANGED <<sheets, mode, sheetArg>>
  /\ UNCHANGED resolverVars
  /\ UNCHANGED laterVars

\* openpyxl_extractor.py extract_sheet_full_details(args.sheet): nothing
\* catches what it raises, the run ends with the exception
OpxExtractSheetFullDetails ==
  /\ mode = "sheet"
  /\ backend = "openpyxl"
  /\ out = NoOutput
  /\ out' = IF OpxSheetRaises(FindSheet(sheets, sheetArg))
            THEN [kind |-> "sheet", raised |-> TRUE, sheets |-> <<>>]
            ELSE [kind |-> "sheet", raised |-> FALSE,
                  sheets |-> <<OpxSheetFullDetails(FindSheet(sheets, sheetArg))>>]
  /\ worksheet' = IF FindSheet(sheets, sheetArg).fault = "select" THEN worksheet
                  ELSE FindSheetIndex(sheets, sheetArg)
  /\ UNCHANGED <<sheets, mode, sheetArg>>
  /\ UNCHANGED resolverVars
  /\ UNCHANGED laterVars

NextWalk ==
  ExtractWorkbookFullDetails \/ XlExtractSheetFullDetails \/ OpxExtractSheetFullDetails

SpecWalk == InitWalk /\ [][NextWalk]_vars

(* ------------------------------------------------------------------ *)
(* Properties of full-detail extraction                                *)
(* ------------------------------------------------------------------ *)

WalkDone == out # NoOutput

\* the sheet of the workbook that the k-th sheet record of the result is for
EnvIndex(k) == IF out.kind = "workbook" THEN k ELSE FindSheetIndex(sheets, sheetArg)

\* the sheets the run was asked to extract
Asked == IF mode = "workbook" THEN 1..Len(sheets) ELSE {FindSheetIndex(sheets, sheetArg)} \ {0}

\* the sheet record of the result for sheet i of the workbook
RecordOf(i) == IF out.kind = "workbook" THEN out.sheets[i] ELSE out.sheets[1]

RawValue(c) ==
  CASE c.kind = "number" -> Num(5)
    [] c.kind = "text" -> Str(<<"x">>)
    [] OTHER -> None

\* C8: in every full-detail cell record of a cell read without failure, a
\* formula cell has value null and formula its text, and any other cell has
\* formula null and value its raw value
C8_ValueXorFormula ==
  WalkDone =>
    \A k \in 1..Len(out.sheets) :
      \A j \in 1..Len(out.sheets[k].cells) :
        LET r == out.sheets[k].cells[j]
            c == sheets[EnvIndex(k)].cells[r.column]
        IN c.fault = "ok" =>
             /\ c.kind = "formula" => (r.value = None /\ r.formula = FormulaText)
             /\ c.kind # "formula" => (r.formula = None /\ r.value = RawValue(c))

\* the field of a cell record that a failing read of that name feeds
FieldOf(r, f) ==
  CASE f = "value" -> r.value
    [] f = "formula" -> r.formula
    [] f = "display_text" -> r.display_text
    [] f = "format" -> r.number_format
    [] f = "hyperlink" -> r.hyperlink
    [] f = "note" -> r.note
    [] OTHER -> r.data_validation

\* the file-parsing backend derives formula from value and reads it nowhere
IsRead(b, f) == b = "xlwings" \/ f # "formula"

\* C9: every used cell of an extracted sheet has its record in the sheet's
\* cells, whichever single read of the cell failed, and the field of the
\* failed read is null in it
C9_FieldFailureKeepsRecord ==
  (WalkDone /\ ~out.raised) =>
    \A i \in Asked :
      sheets[i].fault = "ok" =>
        \A col \in 1..Len(sheets[i].cells) :
          \E j \in 1..Len(RecordOf(i).cells) :
            LET r == RecordOf(i).cells[j]
                f == sheets[i].cells[col].fault
            IN /\ r.column = col
               /\ (f \in FieldFaults \ {"address", "row", "column"} /\ IsRead(backend, f))
                    => FieldOf(r, f) = None

IsDegraded(rec, name) ==
  rec.name = Str(name) /\ rec.error /\ rec.cells = <<>> /\ rec.tables = 0

\* C10: an inaccessible sheet gives a record with its name, an error and
\* empty cells and tables; workbook extraction still has one entry per sheet,
\* in order, the others named and without error; single-sheet extraction by
\* name gives that record too, in both backends
C10_DegradedSheet ==
  WalkDone =>
    /\ mode = "workbook" =>
         /\ ~out.raised
         /\ Len(out.sheets) = Len(sheets)
         /\ \A i \in 1..Len(sheets) :
              IF sheets[i].fault # "ok" THEN IsDegraded(out.sheets[i], sheets[i].name)
              ELSE out.sheets[i].name = Str(sheets[i].name) /\ ~out.sheets[i].error
    /\ (mode = "sheet" /\ \E i \in Asked : sheets[i].fault # "ok") =>
         /\ ~out.raised
         /\ Len(out.sheets) = 1
         /\ IsDegraded(out.sheets[1], sheetArg)


(* ------------------------------------------------------------------ *)
(* The session of cli.py main with the xlwings engine                  *)
(* ------------------------------------------------------------------ *)

\* the calls that raise in a run: the file is missing, xw.App() fails,
\* books.open fails, the with-block raises, workbook.close() fails
SessionFaults == {"missing", "app", "open", "body", "close"}

\* the branch of cli.py main that the arguments select
CliModes == {"workbook", "sheet", "dependencies", "range", "formulas"}

InitSession ==
  /\ backend = "xlwings"
  /\ faults \in SUBSET SessionFaults
  /\ mode \in CliModes
  /\ pc = "new"
  /\ app = "none"
  /\ book = "none"
  /\ exc = "none"
  /\ args = NoArgs /\ reads = {}
  /\ sheets = <<>> /\ sheetArg = <<>> /\ worksheet = 0 /\ out = <<>>
  /\ formula1 = NoFormula /\ vtype = "absent" /\ wb = Workbook0
  /\ evalAddr = NoEval /\ resolved = NotCalled /\ validation = NoValidation
  /\ IdleDeps /\ IdleColumn /\ IdleConvert

\* ExcelFormulaExtractor.__init__
Construct ==
  /\ pc = "new"
  /\ IF "missing" \in faults
     THEN exc' = "init" /\ pc' = "ended"
     ELSE exc' = exc /\ pc' = "constructed"
  /\ UNCHANGED <<app, book, faults, backend>>
  /\ UNCHANGED <<ruleVars, walkerVars, depsVars, columnVars, convertVars>>
  /\ UNCHANGED <<args, reads>>

\* __enter__, which is open_workbook; what it raises leaves the with
\* statement before __exit__ is bound to run
OpenWorkbook ==
  /\ pc = "constructed"
  /\ app' = IF "app" \in faults THEN "none" ELSE "live"
  /\ book' = IF faults \cap {"app", "open"} = {} THEN "open" ELSE "none"
  /\ IF faults \cap {"app", "open"} = {}
     THEN exc' = exc /\ pc' = "entered"
     ELSE exc' = "open" /\ pc' = "ended"
  /\ UNCHANGED <<faults, backend>>
  /\ UNCHANGED <<ruleVars, walkerVars, depsVars, columnVars, convertVars>>
  /\ UNCHANGED <<args, reads>>

\* the with-block of main: one extraction and one export
WithBlock ==
  /\ pc = "entered"
  /\ exc' = IF "body" \in faults THEN "body" ELSE exc
  /\ pc' = "exiting"
  /\ UNCHANGED <<app, book, faults, backend>>
  /\ UNCHANGED <<ruleVars, walkerVars, depsVars, columnVars, convertVars>>
  /\ UNCHANGED <<args, reads>>

\* __exit__, which is close_workbook: workbook.close() and app.quit() share
\* one try block, and __exit__ returns None so exc stays as it is
CloseWorkbook ==
  /\ pc = "exiting"
  /\ book' = IF book = "open" /\ "close" \notin faults THEN "closed" ELSE book
  /\ app' = IF book = "open" /\ "close" \in faults THEN app
            ELSE IF app = "live" THEN "quit" ELSE app
  /\ pc' = "ended"
  /\ UNCHANGED <<faults, exc, backend>>
  /\ UNCHANGED <<ruleVars, walkerVars, depsVars, columnVars, convertVars>>
  /\ UNCHANGED <<args, reads>>

NextSession == Construct \/ OpenWorkbook \/ WithBlock \/ CloseWorkbook

SpecSession == InitSession /\ [][NextSession]_vars

\* C11: no session ends with an application instance started and not quit,
\* whether the run completed, the with-block raised, the workbook could not
\* be opened after the application was started, or closing the workbook failed
C11_AppReleased == (pc = "ended") => (app # "live")

(* ------------------------------------------------------------------ *)
(* _parse_formula_dependencies                                         *)
(* A formula is a sequence of single characters.                       *)
(* ------------------------------------------------------------------ *)

UpperCase ==
  <<"A", "B", "C", "D", "E", "F", "G", "H", "I", "J", "K", "L", "M",
    "N", "O", "P", "Q", "R", "S", "T", "U", "V", "W", "X", "Y", "Z">>

LowerCase ==
  <<"a", "b", "c", "d", "e", "f", "g", "h", "i", "j", "k", "l", "m",
    "n", "o", "p", "q", "r", "s", "t", "u", "v", "w", "x", "y", "z">>

Digits == <<"0", "1", "2", "3", "4", "5", "6", "7", "8", "9">>

SeqRange(q) == {q[i] : i \in 1..Len(q)}

PosIn(q, c) == CHOOSE i \in 1..Len(q) : q[i] = c

\* str.upper() on the characters of a formula
UpperChar(c) == IF c \in SeqRange(LowerCase) THEN UpperCase[PosIn(LowerCase, c)] ELSE c

Upper(s) == [i \in 1..Len(s) |-> UpperChar(s[i])]

\* the class \d of the pattern
IsDigit(c) == c \in SeqRange(Digits)

\* first index from i on whose character is outside the class C, Len(s)+1 if none
RECURSIVE RunEnd(_, _, _)
RunEnd(s, i, C) ==
  IF i > Len(s) \/ s[i] \notin C THEN i ELSE RunEnd(s, i + 1, C)

\* re.findall(r'[A-Z]+\d+', s): leftmost, greedy, non-overlapping matches;
\* a start where no match is found moves the scan on by one character
RECURSIVE FindAll(_, _)
FindAll(s, i) ==
  IF i > Len(s) THEN <<>>
  ELSE LET j == RunEnd(s, i, SeqRange(UpperCase))
           k == RunEnd(s, j, SeqRange(Digits))
       IN IF j > i /\ k > j
          THEN <<SubSeq(s, i, k - 1)>> \o FindAll(s, k)
          ELSE FindAll(s, i + 1)

\* ord() of the characters a match can hold: digits sort before letters
Ord(c) == IF IsDigit(c) THEN 47 + PosIn(Digits, c) ELSE 64 + PosIn(UpperCase, c)

\* a < b on Python strings
RECURSIVE StrLess(_, _)
StrLess(a, b) ==
  IF b = <<>> THEN FALSE
  ELSE IF a = <<>> THEN TRUE
  ELSE IF Head(a) = Head(b) THEN StrLess(Tail(a), Tail(b))
  ELSE Ord(Head(a)) < Ord(Head(b))

RECURSIVE SortedSet(_)
SortedSet(S) ==
  IF S = {} THEN <<>>
  ELSE LET m == CHOOSE x \in S : \A y \in S \ {x} : StrLess(x, y)
       IN <<m>> \o SortedSet(S \ {m})

\* the matches as they were found, neither sorted nor deduplicated
KeepMatches(matches) == matches

\* sorted(list(set(matches)))
SortedUnique(matches) == SortedSet(SeqRange(matches))

ParseFormulaDependencies(f) == SortedUnique(FindAll(Upper(f), 1))

FormulaChars == {"A", "B", "a", "1", "2", ":", "!"}

ExampleFormula ==
  <<"=", "S", "U", "M", "(", "A", "1", ":", "B", "2", ")", "+", "C", "3">>

QualifiedFormula == <<"=", "S", "h", "e", "e", "t", "1", "!", "A", "1">>

NamedFormulas ==
  {ExampleFormula, QualifiedFormula,
   <<"=", "D", "a", "t", "a", "!", "A", "1", "+", "A", "1">>,
   <<"=", "B", "2", "+", "A", "1", "0", "+", "A", "2", "+", "b", "2">>}

InitDeps ==
  /\ backend \in Backends
  /\ depFormula \in SeqsUpTo(FormulaChars, MaxFormulaLen) \cup NamedFormulas
  /\ deps = <<>>
  /\ pc = "ready"
  /\ IdleWalker
  /\ formula1 = NoFormula /\ vtype = "absent" /\ wb = Workbook0
  /\ evalAddr = NoEval /\ resolved = NotCalled /\ validation = NoValidation
  /\ IdleSession /\ IdleColumn /\ IdleConvert

\* extractor.py _parse_formula_dependencies
XlParseFormulaDependencies ==
  /\ pc = "ready"
  /\ backend = "xlwings"
  /\ deps' = ParseFormulaDependencies(depFormula)
  /\ pc' = "done"
  /\ UNCHANGED <<depFormula, backend>>
  /\ UNCHANGED <<ruleVars, walkerVars, sessionVars, columnVars, convertVars>>

\* openpyxl_extractor.py _parse_formula_dependencies
OpxParseFormulaDependencies ==
  /\ pc = "ready"
  /\ backend = "openpyxl"
  /\ deps' = ParseFormulaDependencies(depFormula)
  /\ pc' = "done"
  /\ UNCHANGED <<depFormula, backend>>
  /\ UNCHANGED <<ruleVars, walkerVars, sessionVars, columnVars, convertVars>>

NextDeps == XlParseFormulaDependencies \/ OpxParseFormulaDependencies

SpecDeps == InitDeps /\ [][NextDeps]_vars

(* ------------------------------------------------------------------ *)
(* Properties of the dependency parser                                 *)
(* ------------------------------------------------------------------ *)

IsLetterChar(c) == c \in SeqRange(UpperCase) \cup SeqRange(LowerCase)

\* (i, k): a maximal run of letters from i directly followed by a maximal
\* run of digits up to k
IsToken(f, i, k) ==
  /\ 1 <= i /\ i < k /\ k <= Len(f)
  /\ (i = 1 \/ ~IsLetterChar(f[i - 1]))
  /\ (k = Len(f) \/ ~IsDigit(f[k + 1]))
  /\ \E j \in i..(k - 1) :
       /\ \A x \in i..j : IsLetterChar(f[x])
       /\ \A x \in (j + 1)..k : IsDigit(f[x])

TokenSpans(f) == {p \in (1..Len(f)) \X (1..Len(f)) : IsToken(f, p[1], p[2])}

TokenText(f, p) == Upper(SubSeq(f, p[1], p[2]))

Tokens(f) == {TokenText(f, p) : p \in TokenSpans(f)}

Ascending(q) == \A i \in 1..Len(q), j \in 1..Len(q) : i < j => StrLess(q[i], q[j])

\* C12: the dependency list is strictly ascending in string order and holds
\* exactly the distinct letters-then-digits tokens of the formula, upper-cased;
\* =SUM(A1:B2)+C3 gives [A1, B2, C3]; the result does not depend on the backend
C12_SortedDistinctTokens ==
  (pc = "done")
    => /\ Ascending(deps)
       /\ SeqRange(deps) = Tokens(depFormula)
       /\ (depFormula = ExampleFormula
             => deps = << <<"A", "1">>, <<"B", "2">>, <<"C", "3">> >>)

C12_Witness ==
  /\ pc = "done"
  /\ depFormula = <<"=", "B", "2", "+", "A", "1", "0", "+", "A", "2", "+", "b", "2">>
  /\ deps = << <<"A", "1", "0">>, <<"A", "2">>, <<"B", "2">> >>

\* the spans of the tokens that name a sheet: the ones directly before a '!'
SheetSpans(f) == {p \in TokenSpans(f) : p[2] < Len(f) /\ f[p[2] + 1] = "!"}

CellTokens(f) == {TokenText(f, p) : p \in TokenSpans(f) \ SheetSpans(f)}

SheetTokens(f) == {TokenText(f, p) : p \in SheetSpans(f)}

\* C13: a sheet-qualified reference gives only its cell token: the list holds
\* the cell tokens and no token that comes from a sheet name alone
C13_SheetNameNotADependency ==
  (pc = "done" /\ SheetSpans(depFormula) # {})
    => /\ CellTokens(depFormula) \subseteq SeqRange(deps)
       /\ \A t \in SheetTokens(depFormula) \ CellTokens(depFormula) :
            t \notin SeqRange(deps)

(* ------------------------------------------------------------------ *)
(* _column_to_letter                                                   *)
(* ------------------------------------------------------------------ *)

\* chr(65 + r)
Chr65(r) == UpperCase[r + 1]

\* the remainder of divmod(column_number, 26), without the shift by one
PlainRemainder(n) == n % 26

\* divmod(column_number - 1, 26)
Quotient(n) == (n - 1) \div 26

Remainder(n) == (n - 1) % 26

InitColumn ==
  /\ backend = "xlwings"
  /\ column \in 1..MaxColumn
  /\ remaining = column
  /\ letters = <<>>
  /\ pc = "loop"
  /\ IdleWalker
  /\ formula1 = NoFormula /\ vtype = "absent" /\ wb = Workbook0
  /\ evalAddr = NoEval /\ resolved = NotCalled /\ validation = NoValidation
  /\ IdleSession /\ IdleDeps /\ IdleConvert

\* one turn of the while loop of _column_to_letter
ColumnLoopTurn ==
  /\ pc = "loop"
  /\ remaining > 0
  /\ remaining' = Quotient(remaining)
  /\ letters' = <<Chr65(Remainder(remaining))>> \o letters
  /\ UNCHANGED <<column, pc, backend>>
  /\ UNCHANGED <<ruleVars, walkerVars, sessionVars, depsVars, convertVars>>

\* the loop test fails: return result
ColumnReturn ==
  /\ pc = "loop"
  /\ remaining <= 0
  /\ pc' = "done"
  /\ UNCHANGED <<column, remaining, letters, backend>>
  /\ UNCHANGED <<ruleVars, walkerVars, sessionVars, depsVars, convertVars>>

NextColumn == ColumnLoopTurn \/ ColumnReturn

\* the call runs on: nothing but the loop itself can hold it up
SpecColumn == InitColumn /\ [][NextColumn]_vars /\ WF_vars(NextColumn)

(* ------------------------------------------------------------------ *)
(* Properties of _column_to_letter                                     *)
(* ------------------------------------------------------------------ *)

\* the value of a numeral with digits A = 1 .. Z = 26
RECURSIVE LetterToColumn(_)
LetterToColumn(l) ==
  IF l = <<>> THEN 0
  ELSE 26 * LetterToColumn(SubSeq(l, 1, Len(l) - 1)) + PosIn(UpperCase, l[Len(l)])

ColumnRoundTrip ==
  (pc = "done")
    => /\ letters # <<>>
       /\ \A i \in 1..Len(letters) : letters[i] \in SeqRange(UpperCase)
       /\ LetterToColumn(letters) = column
       /\ (column = 1 => letters = <<"A">>)
       /\ (column = 26 => letters = <<"Z">>)
       /\ (column = 27 => letters = <<"A", "A">>)

\* C14: for every column number from 1 to 16384 the loop ends, and the
\* letters it returns are the base-26 numeral without a zero digit: 1 is A,
\* 26 is Z, 27 is AA, and decoding the letters gives the number back
C14_ColumnLetterRoundTrip == []ColumnRoundTrip /\ <>(pc = "done")

C14_Witness == pc = "done" /\ column = 16384 /\ letters = <<"X", "F", "D">>

(* ------------------------------------------------------------------ *)
(* _convert_impl.py sanitize_filename                                  *)
(* A sheet name is a sequence of single characters.                    *)
(* ------------------------------------------------------------------ *)

\* the characters \s stands for and str.strip() removes
Whitespace == {" ", "\t", "\n"}

\* the class [\\/:*?"<>|]
Disallowed == {"\\", "/", ":", "*", "?", "\"", "<", ">", "|"}

\* the cut of name[:120]
NameLimit == 120

Placeholder == <<"s", "h", "e", "e", "t">>

\* re.sub(r"[\\/:*?\"<>|]", "_", name)
ReplaceDisallowed(s) == [i \in 1..Len(s) |-> IF s[i] \in Disallowed THEN "_" ELSE s[i]]

\* one underscore for every whitespace character, runs not merged
EachWhitespace(s) == [i \in 1..Len(s) |-> IF s[i] \in Whitespace THEN "_" ELSE s[i]]

\* re.sub(r"\s+", "_", name)
\* what the character at i leaves behind: a match of \s+ starts where a
\* whitespace run starts and takes all of it
SubWhitespaceAt(s, i) ==
  IF s[i] \notin Whitespace THEN <<s[i]>>
  ELSE IF i > 1 /\ s[i - 1] \in Whitespace THEN <<>>
  ELSE <<"_">>

\* the pieces of s[lo..hi] put together, by halves
RECURSIVE SubWhitespace(_, _, _)
SubWhitespace(s, lo, hi) ==
  IF lo > hi THEN <<>>
  ELSE IF lo = hi THEN SubWhitespaceAt(s, lo)
  ELSE SubWhitespace(s, lo, (lo + hi) \div 2) \o SubWhitespace(s, (lo + hi) \div 2 + 1, hi)

CollapseWhitespace(s) == SubWhitespace(s, 1, Len(s))

Truncate(s, n) == SubSeq(s, 1, IF Len(s) < n THEN Len(s) ELSE n)

sanitize_filename(name) ==
  LET stripped == StripSet(name, Whitespace)
      replaced == CollapseWhitespace(ReplaceDisallowed(stripped))
  IN IF Truncate(replaced, NameLimit) = <<>> THEN Placeholder
     ELSE Truncate(replaced, NameLimit)

SheetNameChars == {"a", "_", "/", "\"", " ", "\t"}

\* a run of n letters
Filler(n) == [i \in 1..n |-> "a"]

ExampleName == <<"Q", "1", "/", "Q", "2", ":", "R", "e", "p", "o", "r", "t">>

AllDisallowed == <<"\\", "/", ":", "*", "?", "\"", "<", ">", "|", "\n", "x">>

\* every short name, the names that reach the cut, and two named ones
SheetNames ==
  SeqsUpTo(SheetNameChars, MaxSheetNameLen)
    \cup {Filler(NameLimit - 2) \o t : t \in SeqsUpTo(SheetNameChars, MaxOverLen)}
    \cup {ExampleName, AllDisallowed}

InitSanitize ==
  /\ rawName \in SheetNames
  /\ safeName = <<>>
  /\ pc = "ready"
  /\ backend = "openpyxl"
  /\ data = <<>> /\ inputStem = <<>> /\ makeNdjson = FALSE
  /\ fileSystem = <<>> /\ indexRows = <<>> /\ exit = "none"
  /\ IdleWalker
  /\ formula1 = NoFormula /\ vtype = "absent" /\ wb = Workbook0
  /\ evalAddr = NoEval /\ resolved = NotCalled /\ validation = NoValidation
  /\ IdleSession /\ IdleDeps /\ IdleColumn

SanitizeFilename ==
  /\ pc = "ready"
  /\ safeName' = sanitize_filename(rawName)
  /\ pc' = "done"
  /\ UNCHANGED <<rawName, data, inputStem, makeNdjson, fileSystem, indexRows, exit, backend>>
  /\ UNCHANGED <<ruleVars, walkerVars, sessionVars, depsVars, columnVars>>

NextSanitize == SanitizeFilename

SpecSanitize == InitSanitize /\ [][NextSanitize]_vars

(* ------------------------------------------------------------------ *)
(* Properties of sanitize_filename                                     *)
(* ------------------------------------------------------------------ *)

\* the characters of t that leave something behind: all but the second and
\* later characters of a whitespace run
Kept(t, i) == t[i] \notin Whitespace \/ i = 1 \/ t[i - 1] \notin Whitespace

\* where the character at i lands
Landing(t, i) == Cardinality({j \in 1..i : Kept(t, j)})

Image(c) == IF c \in Disallowed \cup Whitespace THEN "_" ELSE c

\* r is t with each disallowed character and each whitespace run turned
\* into one underscore, cut at NameLimit
Underscored(r, t) ==
  /\ Len(r) = IF Landing(t, Len(t)) < NameLimit THEN Landing(t, Len(t)) ELSE NameLimit
  /\ \A i \in 1..Len(t) :
       (Kept(t, i) /\ Landing(t, i) <= NameLimit) => r[Landing(t, i)] = Image(t[i])

Blank(s) == \A i \in 1..Len(s) : s[i] \in Whitespace

SafeResult ==
  /\ safeName # <<>>
  /\ Len(safeName) <= NameLimit
  /\ \A i \in 1..Len(safeName) : safeName[i] \notin Disallowed \cup Whitespace
  /\ (Blank(rawName) => safeName = Placeholder)
  /\ (rawName = ExampleName
        => safeName = <<"Q", "1", "_", "Q", "2", "_", "R", "e", "p", "o", "r", "t">>)

\* C16 as stated: the result is safe, and every whitespace run of the name,
\* wherever it stands, is turned into one underscore
C16_EveryRunUnderscored ==
  (pc = "done")
    => /\ SafeResult
       /\ (~Blank(rawName) => Underscored(safeName, rawName))

\* C16: the result is non-empty, at most 120 characters, free of the
\* disallowed characters and of whitespace; leading and trailing whitespace
\* is removed first, then each disallowed character and each whitespace run
\* of what is left is one underscore; an empty or blank name gives 'sheet'
C16_SanitizedTrimmed ==
  (pc = "done")
    => /\ SafeResult
       /\ (~Blank(rawName) => Underscored(safeName, StripSet(rawName, Whitespace)))

C16_Witness ==
  /\ pc = "done"
  /\ rawName = <<" ", "a", "\t", "/">>
  /\ safeName = <<"a", "_", "_">>

(* ------------------------------------------------------------------ *)
(* _convert_impl.py: JSON values                                       *)
(* ------------------------------------------------------------------ *)


JList(items) == [t |-> "list", items |-> items]

\* a dict is a function from its keys
JDict(f) == [t |-> "dict", d |-> f]

EmptyDict == JDict(<<>>)

\* key in d
HasKey(v, k) == v.t = "dict" /\ k \in DOMAIN v.d

\* d.get(key, default) and d.get(key)
GetOr(v, k, dflt) == IF k \in DOMAIN v.d THEN v.d[k] ELSE dflt

Get(v, k) == GetOr(v, k, None)

\* Python truth of a JSON value
JTruthy(v) ==
  CASE v.t = "none" -> FALSE
    [] v.t = "str" -> v.s # <<>>
    [] v.t = "num" -> v.n # 0
    [] v.t = "bool" -> v.n = 1
    [] v.t = "list" -> v.items # <<>>
    [] v.t = "dict" -> DOMAIN v.d # {}

\* x or []
OrEmptyList(v) == IF JTruthy(v) THEN v ELSE JList(<<>>)

\* x or {}
OrEmptyDict(v) == IF JTruthy(v) THEN v ELSE EmptyDict

\* a sheet is taken for one as soon as the key "sheet" is there
DetectBySheetKey(d) ==
  IF HasKey(d, "workbook") /\ Get(d, "workbook").t = "dict" /\ HasKey(Get(d, "workbook"), "sheets")
  THEN "workbook"
  ELSE IF HasKey(d, "sheet") THEN "sheet"
  ELSE "unknown"

detect_structure(d) ==
  IF HasKey(d, "workbook") /\ Get(d, "workbook").t = "dict" /\ HasKey(Get(d, "workbook"), "sheets")
  THEN "workbook"
  ELSE IF HasKey(d, "sheet") /\ HasKey(d, "cells") THEN "sheet"
  ELSE "unknown"

extract_sheets(d) ==
  CASE detect_structure(d) = "workbook" ->
         OrEmptyList(GetOr(GetOr(d, "workbook", EmptyDict), "sheets", JList(<<>>))).items
    [] detect_structure(d) = "sheet" -> <<d>>
    [] OTHER -> <<>>

Unknown == Str(<<"U", "n", "k", "n", "o", "w", "n">>)

\* sheet_entry.get("sheet", {}).get("name", "Unknown")
SheetNameOf(entry) == GetOr(GetOr(entry, "sheet", EmptyDict), "name", Unknown)

\* sheet_entry.get("cells", []) or []
CellsOf(entry) == OrEmptyList(GetOr(entry, "cells", JList(<<>>))).items

HasFormula(c) == JTruthy(Get(c, "formula"))

HasValidation(c) == JTruthy(Get(c, "data_validation"))

IsDropdown(c) ==
  Get(OrEmptyDict(Get(c, "data_validation")), "type_name") = Str(<<"xlValidateList">>)

CountIf(cells, P(_)) == Cardinality({i \in 1..Len(cells) : P(cells[i])})

summarize_sheet(entry) ==
  [name |-> SheetNameOf(entry),
   cells |-> Len(CellsOf(entry)),
   formulas |-> CountIf(CellsOf(entry), HasFormula),
   validations |-> CountIf(CellsOf(entry), HasValidation),
   dropdowns |-> CountIf(CellsOf(entry), IsDropdown)]

(* ------------------------------------------------------------------ *)
(* _convert_impl.py: the CSV files of a sheet                          *)
(* ------------------------------------------------------------------ *)

\* the columns list, each column split at the dots
Columns ==
  << <<"address">>, <<"row">>, <<"column">>, <<"column_letter">>,
     <<"value">>, <<"display_text">>, <<"formula">>,
     <<"format", "number_format">>, <<"format", "font_name">>,
     <<"format", "font_size">>, <<"format", "font_bold">>,
     <<"format", "font_italic">>,
     <<"hyperlink", "address">>, <<"note">>,
     <<"data_validation", "type_name">>, <<"data_validation", "formula1">>,
     <<"data_validation", "formula2">>, <<"data_validation", "list_items">>,
     <<"format", "merged">>, <<"format", "merge_area">> >>

\* sep.join(parts)
RECURSIVE JoinWith(_, _)
JoinWith(parts, sep) ==
  IF parts = <<>> THEN <<>>
  ELSE IF Len(parts) = 1 THEN parts[1]
  ELSE parts[1] \o sep \o JoinWith(Tail(parts), sep)

\* the column as it is written in the header
HeaderName(col) == JoinWith([i \in 1..Len(col) |-> <<col[i]>>], <<".">>)

RECURSIVE get_nested(_, _)
get_nested(cur, path) ==
  IF path = <<>> THEN cur
  ELSE IF cur.t # "dict" THEN None
  ELSE get_nested(Get(cur, Head(path)), Tail(path))

\* str(x), and what csv.writer writes for None
PyStr(v) ==
  CASE v.t = "none" -> <<"None">>
    [] v.t = "str" -> v.s
    [] v.t = "num" -> <<ToString(v.n)>>
    [] v.t = "bool" -> IF v.n = 1 THEN <<"True">> ELSE <<"False">>
    [] OTHER -> <<"{}">>

\* the text of one field: a list is joined with ", ", None is the empty field
FieldText(val) ==
  IF val.t = "list"
  THEN JoinWith([i \in 1..Len(val.items) |-> PyStr(val.items[i])], <<",", " ">>)
  ELSE IF val.t = "none" THEN <<>>
  ELSE PyStr(val)

RowFields(r) ==
  [j \in 1..Len(Columns) |->
     FieldText(IF Len(Columns[j]) > 1 THEN get_nested(r, Columns[j])
               ELSE Get(r, Columns[j][1]))]

HeaderFields == [j \in 1..Len(Columns) |-> HeaderName(Columns[j])]

\* a field written as it is, whatever it holds
BareField(f) == f

DoubleQuotes(f) ==
  JoinWith([i \in 1..Len(f) |-> IF f[i] = "\"" THEN <<"\"", "\"">> ELSE <<f[i]>>], <<>>)

\* csv.writer with the default dialect: a field that holds the delimiter,
\* the quote character or a line break is quoted, its quotes doubled
QuoteField(f) ==
  IF \E i \in 1..Len(f) : f[i] \in {",", "\"", "\n", "\r"}
  THEN <<"\"">> \o DoubleQuotes(f) \o <<"\"">>
  ELSE f

\* writer.writerow(line)
WriteRow(fields) == JoinWith([j \in 1..Len(fields) |-> QuoteField(fields[j])], <<",">>)

\* write_csv: the header and one record for every row
CsvFile(rows) ==
  [kind |-> "csv",
   lines |-> <<WriteRow(HeaderFields)>> \o [i \in 1..Len(rows) |-> WriteRow(RowFields(rows[i]))]]


(* ------------------------------------------------------------------ *)
(* _convert_impl.py: the files written                                 *)
(* A path is the sequence of its components below the output           *)
(* directory; the file system maps the paths that exist to what they   *)
(* hold.                                                               *)
(* ------------------------------------------------------------------ *)

Dir == [kind |-> "dir"]

\* input_json.stem.replace(" ", "_")
WorkbookStem(stem) == [i \in 1..Len(stem) |-> IF stem[i] = " " THEN "_" ELSE stem[i]]

\* out_root = output_dir / workbook_stem
OutRoot(stem) == <<WorkbookStem(stem)>>

\* Path(p).name
PathName(p) == p[Len(p)]

\* write_sheet_csvs: the three paths, keyed as in the files dict
CsvPaths(dir, base) ==
  [cells_csv |-> Append(dir, base \o <<"-cells.csv">>),
   formulas_csv |-> Append(dir, base \o <<"-formulas.csv">>),
   validations_csv |-> Append(dir, base \o <<"-validations.csv">>)]

write_sheet_csvs(dir, name, cells) ==
  LET p == CsvPaths(dir, sanitize_filename(name))
  IN (p.cells_csv :> CsvFile(cells))
       @@ (p.formulas_csv :> CsvFile(SelectSeq(cells, HasFormula)))
       @@ (p.validations_csv :> CsvFile(SelectSeq(cells, HasValidation)))

JsonPath(dir, name) == Append(dir, sanitize_filename(name) \o <<".json">>)

write_sheet_json(dir, name, entry) ==
  JsonPath(dir, name) :> [kind |-> "json", value |-> entry]

\* one turn of the loop of convert over sheets: the directory of the sheet
\* and its four files, written over what was there
SheetFiles(root, entry) ==
  LET name == SheetNameOf(entry).s
      dir == Append(root, sanitize_filename(name))
  IN write_sheet_json(dir, name, entry)
       @@ write_sheet_csvs(dir, name, CellsOf(entry))
       @@ (dir :> Dir)

\* file_map[key] = {**csv_files, "json": json_file}
FileMapEntry(root, entry) ==
  LET name == SheetNameOf(entry).s
      dir == Append(root, sanitize_filename(name))
      p == CsvPaths(dir, sanitize_filename(name))
  IN [cells_csv |-> p.cells_csv, formulas_csv |-> p.formulas_csv,
      validations_csv |-> p.validations_csv, json |-> JsonPath(dir, name)]

\* sanitize_filename(name) raises when the name is not a string
NameRaises(entry) == SheetNameOf(entry).t # "str"

\* the loop of convert over sheets up to the first sheet whose name raises
RECURSIVE WriteSheets(_, _, _, _, _)
WriteSheets(fs, fileMap, shs, i, root) ==
  IF i > Len(shs) THEN [fs |-> fs, fileMap |-> fileMap, raised |-> FALSE]
  ELSE IF NameRaises(shs[i]) THEN [fs |-> fs, fileMap |-> fileMap, raised |-> TRUE]
  ELSE WriteSheets(SheetFiles(root, shs[i]) @@ fs,
                   (sanitize_filename(SheetNameOf(shs[i]).s) :> FileMapEntry(root, shs[i]))
                     @@ fileMap,
                   shs, i + 1, root)

NdjsonPath(root, stem) == Append(root, WorkbookStem(stem) \o <<"-cells.ndjson">>)

\* write_ndjson: one row for every cell of every sheet
write_ndjson(root, stem, shs) ==
  NdjsonPath(root, stem) :>
    [kind |-> "ndjson",
     rows |-> JoinWith([i \in 1..Len(shs) |->
                          [j \in 1..Len(CellsOf(shs[i])) |->
                             [sheet |-> SheetNameOf(shs[i]), cell |-> CellsOf(shs[i])[j]]]],
                       <<>>)]

IndexPath(root) == Append(root, <<"INDEX.md">>)

\* the four link targets of a row of the index: the names of the files
IndexLinks(key, files) ==
  <<PathName(files.cells_csv), PathName(files.formulas_csv),
    PathName(files.validations_csv), key \o <<".json">> >>

\* one row of the table of write_index_md
IndexRow(entry, fileMap) ==
  LET st == summarize_sheet(entry)
      key == sanitize_filename(st.name.s)
  IN [name |-> st.name, cells |-> st.cells, formulas |-> st.formulas,
      validations |-> st.validations, dropdowns |-> st.dropdowns,
      links |-> IndexLinks(key, fileMap[key])]

write_index_md(shs, fileMap) == [i \in 1..Len(shs) |-> IndexRow(shs[i], fileMap)]

(* ------------------------------------------------------------------ *)
(* _convert_impl.py: inputs of convert                                 *)
(* ------------------------------------------------------------------ *)

\* the cells of an input: what the cell holds, its rule, and whether it
\* has a note
ConvCells ==
  {[kind |-> "number", rule |-> "absent", note |-> FALSE],
   [kind |-> "formula", rule |-> "absent", note |-> FALSE],
   [kind |-> "text", rule |-> "list", note |-> FALSE],
   [kind |-> "number", rule |-> "whole", note |-> FALSE],
   [kind |-> "text", rule |-> "absent", note |-> TRUE]}

\* the cells of a second sheet
SecondCells == {c \in ConvCells : c.kind = "formula" \/ c.rule = "list"}

ListRuleText == Text(<<"N", ",", "K">>)

ListRuleItems == ListOf(<<Str(<<"N">>), Str(<<"K">>)>>)

\* the data_validation entry of a cell as the backend b writes it
ValidationJson(b, rule) ==
  LET o == IF rule = "list" THEN ListRuleItems ELSE NotCalled
      v == IF b = "xlwings" THEN XlCellValidation(rule, ListRuleText, o)
           ELSE OpxCellValidation(rule, ListRuleText, o)
      base == ("type_name" :> Str(<<v.type_name>>))
                @@ ("formula1" :> Str(v.formula1.text)) @@ ("formula2" :> None)
  IN IF ~v.present THEN None
     ELSE IF v.hasListItems THEN JDict(("list_items" :> JList(v.list_items)) @@ base)
     ELSE JDict(base)

NoteText == Str(<<"l", ",", "\"", "m", "\n", "n">>)

\* the format entry; the xlwings backend adds merged
FormatJson(b) ==
  LET base == ("number_format" :> Str(<<"General">>)) @@ ("font_name" :> Str(<<"Arial">>))
                @@ ("font_size" :> Num(11)) @@ ("font_bold" :> Bool(FALSE))
                @@ ("font_italic" :> Bool(FALSE))
  IN IF b = "xlwings" THEN JDict(("merged" :> Bool(FALSE)) @@ base) ELSE JDict(base)

\* the record of the cell in column col of row 1, as the backend b writes it
CellJson(b, c, col) ==
  LET w == [kind |-> c.kind, fault |-> "ok"]
  IN JDict(("address" :> Str(<<UpperCase[col], "1">>))
             @@ ("row" :> Num(1)) @@ ("column" :> Num(col))
             @@ ("column_letter" :> Str(<<UpperCase[col]>>))
             @@ ("value" :> IF b = "xlwings" THEN XlValueField(w) ELSE OpxValueField(w))
             @@ ("formula" :> IF b = "xlwings" THEN XlFormulaField(w) ELSE OpxFormulaField(w))
             @@ ("display_text" :> IF b = "xlwings" THEN Str(<<"text">>) ELSE None)
             @@ ("format" :> FormatJson(b))
             @@ ("hyperlink" :> None)
             @@ ("note" :> IF c.note THEN NoteText ELSE None)
             @@ ("data_validation" :> ValidationJson(b, c.rule)))

\* a sheet entry with the name nm (a string or None) and the cells cs
SheetJson(b, nm, cs) ==
  JDict(("sheet" :> JDict("name" :> nm))
          @@ ("cells" :> JList([i \in 1..Len(cs) |-> CellJson(b, cs[i], i)]))
          @@ ("tables" :> JList(<<>>)))

FirstNames == {<<"S">>, <<"a", " ", "b">>, <<"Q", "/", "R">>, <<" ", "_">>}

SecondNames == {<<"T">>, <<"a", "_", "b">>}

\* the first sheet, and the second if there is one; a sheet the xlwings
\* backend could not reach has the name None and no cells
SheetLists(b) ==
  LET first == {SheetJson(b, Str(nm), cs) :
                  nm \in FirstNames, cs \in SeqsUpTo(ConvCells, MaxCells)}
      second == {SheetJson(b, Str(nm), cs) :
                   nm \in SecondNames, cs \in SeqsUpTo(SecondCells, 1)}
                  \cup (IF b = "xlwings" THEN {SheetJson(b, None, <<>>)} ELSE {})
  IN {<<f>> : f \in first} \cup {<<f, s>> : f \in first, s \in second}

WorkbookJson(shs) ==
  JDict(("file_path" :> Str(<<"b">>))
          @@ ("workbook" :> JDict(("sheet_count" :> Num(Len(shs)))
                                    @@ ("sheets" :> JList(shs)) @@ ("names" :> JList(<<>>)))))

\* {"workbook": {"sheets": [...]}} with at least one sheet
WorkbookInputs(b) == {WorkbookJson(shs) : shs \in SheetLists(b)}

\* {"sheet": ..., "cells": [...]}
SheetInputs(b) ==
  {SheetJson(b, Str(nm), cs) : nm \in FirstNames, cs \in SeqsUpTo(ConvCells, 1)}
    \cup {JDict(("sheet" :> EmptyDict) @@ ("cells" :> JList(<<CellJson(b, c, 1)>>))) :
            c \in ConvCells}
    \cup {JDict(("sheet" :> JDict("name" :> Str(<<"S">>))) @@ ("cells" :> None)),
          JDict(("workbook" :> JDict("names" :> JList(<<>>)))
                  @@ ("sheet" :> JDict("name" :> Str(<<"S">>))) @@ ("cells" :> JList(<<>>)))}

\* workbook-shaped with no sheet to give
EmptyWorkbookInputs ==
  {JDict("workbook" :> JDict("sheets" :> JList(<<>>))),
   JDict("workbook" :> JDict("sheets" :> None))}

\* neither shape
OtherInputs(b) ==
  {EmptyDict,
   JDict("workbook" :> EmptyDict),
   JDict("workbook" :> Num(1)),
   JDict("workbook" :> JList(<<Str(<<"sheets">>)>>)),
   JDict("sheet" :> JDict("name" :> Str(<<"S">>))),
   JDict("cells" :> JList(<<CellJson(b, CHOOSE c \in ConvCells : c.kind = "formula", 1)>>)),
   JDict("sheets" :> JList(<<SheetJson(b, Str(<<"S">>), <<>>)>>)),
   JDict(("file_path" :> Str(<<"b">>)) @@ ("formulas" :> JList(<<>>)))}

InitConvert ==
  /\ backend \in Backends
  /\ data \in WorkbookInputs(backend) \cup SheetInputs(backend)
                \cup EmptyWorkbookInputs \cup OtherInputs(backend)
  /\ \/ inputStem = <<"b">> /\ makeNdjson = FALSE
     \/ inputStem = <<"b", " ", "k">> /\ makeNdjson = TRUE
  /\ fileSystem = <<>>
  /\ indexRows = <<>>
  /\ exit = "none"
  /\ rawName = <<>> /\ safeName = <<>>
  /\ pc = "ready"
  /\ IdleWalker
  /\ formula1 = NoFormula /\ vtype = "absent" /\ wb = Workbook0
  /\ evalAddr = NoEval /\ resolved = NotCalled /\ validation = NoValidation
  /\ IdleSession /\ IdleDeps /\ IdleColumn

\* convert when extract_sheets gives nothing: SystemExit before ensure_dir
ConvertNoSheets ==
  /\ pc = "ready"
  /\ exit = "none"
  /\ extract_sheets(data) = <<>>
  /\ exit' = "nosheets"
  /\ pc' = "done"
  /\ UNCHANGED <<data, inputStem, makeNdjson, fileSystem, indexRows, rawName, safeName, backend>>
  /\ UNCHANGED <<ruleVars, walkerVars, sessionVars, depsVars, columnVars>>

\* convert from ensure_dir(out_root) on: the sheets, then the ndjson file if
\* asked for, then the index; a raise in the loop leaves what was written
Convert ==
  /\ pc = "ready"
  /\ exit = "none"
  /\ extract_sheets(data) # <<>>
  /\ LET shs == extract_sheets(data)
         root == OutRoot(inputStem)
         w == WriteSheets(root :> Dir, <<>>, shs, 1, root)
         nd == IF makeNdjson THEN write_ndjson(root, inputStem, shs) ELSE <<>>
     IN IF w.raised
        THEN /\ exit' = "error"
             /\ fileSystem' = w.fs
             /\ indexRows' = indexRows
        ELSE /\ exit' = "ok"
             /\ fileSystem' = (IndexPath(root) :> [kind |-> "md"]) @@ nd @@ w.fs
             /\ indexRows' = write_index_md(shs, w.fileMap)
  /\ pc' = "done"
  /\ UNCHANGED <<data, inputStem, makeNdjson, rawName, safeName, backend>>
  /\ UNCHANGED <<ruleVars, walkerVars, sessionVars, depsVars, columnVars>>

NextConvert == ConvertNoSheets \/ Convert

SpecConvert == InitConvert /\ [][NextConvert]_vars

(* ------------------------------------------------------------------ *)
(* Properties of convert                                               *)
(* ------------------------------------------------------------------ *)

\* the pieces of line[lo..hi] between its commas, by halves: the last piece
\* of the left half runs on into the first piece of the right half
RECURSIVE PiecesIn(_, _, _)
PiecesIn(line, lo, hi) ==
  IF lo > hi THEN << <<>> >>
  ELSE IF lo = hi
       THEN (IF line[lo] = "," THEN << <<>>, <<>> >> ELSE << <<line[lo]>> >>)
       ELSE LET l == PiecesIn(line, lo, (lo + hi) \div 2)
                r == PiecesIn(line, (lo + hi) \div 2 + 1, hi)
            IN SubSeq(l, 1, Len(l) - 1) \o <<l[Len(l)] \o r[1]>> \o Tail(r)

QuoteCount(f) == Cardinality({i \in 1..Len(f) : f[i] = "\""})

\* two quotes inside a quoted field are one quote
RECURSIVE HalveQuotes(_)
HalveQuotes(f) ==
  IF f = <<>> THEN <<>>
  ELSE IF Len(f) >= 2 /\ f[1] = "\"" /\ f[2] = "\""
       THEN <<"\"">> \o HalveQuotes(SubSeq(f, 3, Len(f)))
       ELSE <<f[1]>> \o HalveQuotes(Tail(f))

Unquoted(f) ==
  IF f # <<>> /\ f[1] = "\"" THEN HalveQuotes(SubSeq(f, 2, Len(f) - 1)) ELSE f

\* the fields a CSV reader finds in a record: a comma inside a quoted part
\* does not end the field
RECURSIVE ReadFields(_, _, _, _, _)
ReadFields(pieces, i, cur, open, fields) ==
  IF i > Len(pieces) THEN (IF open THEN Append(fields, cur) ELSE fields)
  ELSE LET now == IF open THEN cur \o <<",">> \o pieces[i] ELSE pieces[i]
           stillOpen == (QuoteCount(now) % 2 = 1)
       IN IF stillOpen THEN ReadFields(pieces, i + 1, now, TRUE, fields)
          ELSE ReadFields(pieces, i + 1, <<>>, FALSE, Append(fields, Unquoted(now)))

ReadRow(line) == ReadFields(PiecesIn(line, 1, Len(line)), 1, <<>>, FALSE, <<>>)

CsvPathsWritten == {p \in DOMAIN fileSystem : fileSystem[p].kind = "csv"}

\* the sheets convert went through
SheetsOf(d) == extract_sheets(d)

\* the value of the cell c at the column of the given dotted name
RECURSIVE Lookup(_, _)
Lookup(v, path) ==
  IF path = <<>> THEN v
  ELSE IF v.t = "dict" /\ Head(path) \in DOMAIN v.d THEN Lookup(v.d[Head(path)], Tail(path))
  ELSE None

\* the text a value shows as in its field
Shown(v) ==
  CASE v.t = "none" -> <<>>
    [] v.t = "str" -> v.s
    [] v.t = "num" -> <<ToString(v.n)>>
    [] v.t = "bool" -> IF v.n = 1 THEN <<"True">> ELSE <<"False">>
    [] v.t = "list" -> JoinWith([i \in 1..Len(v.items) |-> v.items[i].s], <<",", " ">>)

\* the selections of cells that a CSV file of some sheet is written from
RowSources ==
  UNION {{CellsOf(SheetsOf(data)[i]),
          SelectSeq(CellsOf(SheetsOf(data)[i]), HasFormula),
          SelectSeq(CellsOf(SheetsOf(data)[i]), HasValidation)} :
           i \in 1..Len(SheetsOf(data))}

\* the columns in the order they are listed, dots and all
ListedColumns ==
  << <<"address">>, <<"row">>, <<"column">>, <<"column_letter">>, <<"value">>,
     <<"display_text">>, <<"formula">>, <<"format", ".", "number_format">>,
     <<"format", ".", "font_name">>, <<"format", ".", "font_size">>,
     <<"format", ".", "font_bold">>, <<"format", ".", "font_italic">>,
     <<"hyperlink", ".", "address">>, <<"note">>,
     <<"data_validation", ".", "type_name">>, <<"data_validation", ".", "formula1">>,
     <<"data_validation", ".", "formula2">>, <<"data_validation", ".", "list_items">>,
     <<"format", ".", "merged">>, <<"format", ".", "merge_area">> >>

\* the keys from the cell record down to the column
KeysOf(col) == [i \in 1..Len(Split(col, ".")) |-> Split(col, ".")[i][1]]

\* the fields of the cell c under the first n listed columns
FieldsOf(c, n) == [j \in 1..n |-> Shown(Lookup(c, KeysOf(ListedColumns[j])))]

\* the file reads back as a header of the first n listed columns and rows of
\* n fields, field by field the cells of one selection of one sheet
ReadsBack(lines, n) ==
  LET rows == [k \in 1..Len(lines) |-> ReadRow(lines[k])]
  IN /\ Len(lines) >= 1
     /\ n <= Len(ListedColumns)
     /\ rows[1] = SubSeq(ListedColumns, 1, n)
     /\ \A k \in 2..Len(lines) : Len(rows[k]) = n
     /\ \E src \in RowSources :
          /\ Len(src) = Len(lines) - 1
          /\ \A k \in 1..Len(src) : rows[k + 1] = FieldsOf(src[k], n)

\* C15 as stated: every CSV file has a header of exactly 19 columns in the
\* listed order, and every row has as many fields, in the same order
C15_NineteenColumns ==
  (pc = "done") => \A p \in CsvPathsWritten : ReadsBack(fileSystem[p].lines, 19)

\* C15: every CSV file written for a sheet has a header of exactly the 20
\* listed columns in the listed order, and every data row reads back as 20
\* fields that are the values of one cell in that column order
C15_TwentyColumns ==
  (pc = "done")
    => /\ Len(ListedColumns) = 20
       /\ \A p \in CsvPathsWritten : ReadsBack(fileSystem[p].lines, 20)

\* a file with two data rows, one of them with a quoted field
C15_Witness ==
  /\ pc = "done"
  /\ exit = "ok"
  /\ \E p \in CsvPathsWritten :
       /\ Len(fileSystem[p].lines) = 3
       /\ \E k \in 2..3 : \E i \in 1..Len(fileSystem[p].lines[k]) :
            fileSystem[p].lines[k][i] = "\""

\* {"workbook": {"sheets": [...]}} with a non-empty list
WorkbookShaped(d) ==
  /\ d.t = "dict" /\ "workbook" \in DOMAIN d.d
  /\ d.d["workbook"].t = "dict" /\ "sheets" \in DOMAIN d.d["workbook"].d
  /\ d.d["workbook"].d["sheets"].t = "list"
  /\ d.d["workbook"].d["sheets"].items # <<>>

\* workbook-shaped, the list empty or null
EmptyWorkbookShaped(d) ==
  /\ d.t = "dict" /\ "workbook" \in DOMAIN d.d
  /\ d.d["workbook"].t = "dict" /\ "sheets" \in DOMAIN d.d["workbook"].d
  /\ \/ d.d["workbook"].d["sheets"].t = "none"
     \/ d.d["workbook"].d["sheets"] = JList(<<>>)

\* {"sheet": ..., "cells": ...} and not workbook-shaped
SheetShaped(d) ==
  /\ d.t = "dict" /\ {"sheet", "cells"} \subseteq DOMAIN d.d
  /\ ~WorkbookShaped(d) /\ ~EmptyWorkbookShaped(d)

IndexNames == [i \in 1..Len(indexRows) |-> indexRows[i].name]

SheetOfRow(i) == SheetsOf(data)[i]

\* a link of the index, resolved against the directory that holds INDEX.md
Resolved(link) == Append(OutRoot(inputStem), link)

\* the directory of a sheet
SheetDirOf(entry) == Append(OutRoot(inputStem), sanitize_filename(SheetNameOf(entry).s))

\* C18: after convert, every link of the index, resolved against the
\* directory of INDEX.md, is a file that exists and that lies in the
\* directory of its sheet
C18_LinksResolve ==
  (pc = "done" /\ exit = "ok")
    => \A i \in 1..Len(indexRows) : \A k \in 1..Len(indexRows[i].links) :
         /\ Resolved(indexRows[i].links[k]) \in DOMAIN fileSystem
         /\ fileSystem[Resolved(indexRows[i].links[k])].kind \in {"csv", "json"}
         /\ SubSeq(Resolved(indexRows[i].links[k]), 1, 2) = SheetDirOf(SheetOfRow(i))

\* a cell with a rule of the list type, in the words of either backend
IsListRule(c) ==
  /\ Lookup(c, <<"data_validation">>).t = "dict"
  /\ Lookup(c, <<"data_validation", "type_name">>)
       \in {Str(<<"xlValidateList">>), Str(<<"list">>)}

DataRows(p) == Len(fileSystem[p].lines) - 1

\* C19: in every row of the index the dropdown count is the number of cells
\* of the sheet with a list-type rule, whichever backend wrote the JSON;
\* dropdowns <= validations <= cells and formulas <= cells; the formulas and
\* validations counts are the numbers of data rows of the two CSV files
C19_IndexCounts ==
  (pc = "done" /\ exit = "ok")
    => \A i \in 1..Len(indexRows) :
         LET row == indexRows[i]
             cells == CellsOf(SheetOfRow(i))
             dir == SheetDirOf(SheetOfRow(i))
             base == sanitize_filename(SheetNameOf(SheetOfRow(i)).s)
         IN /\ row.dropdowns = Cardinality({j \in 1..Len(cells) : IsListRule(cells[j])})
            /\ row.dropdowns <= row.validations
            /\ row.validations <= row.cells
            /\ row.formulas <= row.cells
            /\ row.formulas = DataRows(Append(dir, base \o <<"-formulas.csv">>))
            /\ row.validations = DataRows(Append(dir, base \o <<"-validations.csv">>))

(* ------------------------------------------------------------------ *)
(* 'All formulas' and range extraction                                 *)
(* ------------------------------------------------------------------ *)

\* rows of the used range of the sheet; its columns are GridCols
MaxRows == 2

ExtentCoords == (1..MaxRows) \X GridCols

\* what a cell of the sheet holds
FormulaCellKinds == CellKinds \cup {"zero", "bool"}

\* isinstance(value, (int, float)): bool is a subclass of int
IsIntOrFloat(v) == v.t \in {"num", "bool"}

\* value != 0
NonZero(v) == v.n # 0

InfoRecord(row, col, formula, value) ==
  [address |-> <<row, col>>, row |-> row, column |-> col,
   formula |-> formula, value |-> value]

\* extractor.py _extract_cell_info: a record, or nothing for None; a read
\* that raises ends in the except branch, which returns None
XlExtractCellInfo(c, row, col) ==
  LET value == XlCellValue(c)
      formula == XlCellFormula(c)
  IN IF c.fault # "ok" THEN <<>>
     ELSE IF Truthy(formula) /\ StartsWith(formula.s, "=")
     THEN <<InfoRecord(row, col, formula, value)>>
     ELSE IF IsIntOrFloat(value) /\ NonZero(value)
     THEN <<InfoRecord(row, col, None, value)>>
     ELSE <<>>

\* openpyxl_extractor.py lines 380-382 and 391-393: the full record of the
\* cell, kept when its formula is truthy or its value a nonzero number
OpxFormulaEntry(c, row, col) ==
  LET info == OpxExtractCellFullDetails(c, row, col)
  IN IF Truthy(info.formula) \/ (IsIntOrFloat(info.value) /\ NonZero(info.value))
     THEN <<info>>
     ELSE <<>>

FormulaEntry(b, c, row, col) ==
  IF b = "xlwings" THEN XlExtractCellInfo(c, row, col)
  ELSE OpxFormulaEntry(c, row, col)

\* the two nested loops over the cells of rectangle r, rows outermost
RECURSIVE FormulasFrom(_, _, _, _, _)
FormulasFrom(b, grid, r, row, col) ==
  IF row > r.maxRow THEN <<>>
  ELSE IF col > r.maxCol THEN FormulasFrom(b, grid, r, row + 1, r.minCol)
  ELSE FormulaEntry(b, grid[<<row, col>>], row, col)
         \o FormulasFrom(b, grid, r, row, col + 1)

FormulasIn(b, grid, r) == FormulasFrom(b, grid, r, r.minRow, r.minCol)

\* rows 1..rows.count and columns 1..columns.count of the used range
UsedExtent(sh) == Rect(<<1, 1>>, <<sh.rows, sh.columns>>)

FormulasOutput(formulas) ==
  [kind |-> "formulas", raised |-> FALSE, formulas |-> formulas]

\* the --range arguments: a rectangle, a column, one cell
RangeArgs == {<<"A1", ":", "B2">>, <<"B1", ":", "B2">>, <<"B2">>}

\* one sheet, every content of its cells; the range call comes from cli.py
\* (no worksheet selected yet) or from a caller that has selected the sheet
InitFormulas ==
  /\ backend \in Backends
  /\ \E g \in [ExtentCoords -> [kind : FormulaCellKinds, fault : {"ok"}]] :
       sheets = <<[name |-> <<"S">>, grid |-> g, rows |-> MaxRows,
                   columns |-> Cardinality(GridCols)]>>
  /\ \/ mode = "all" /\ sheetArg = <<>> /\ worksheet = 0
     \/ mode = "range" /\ sheetArg \in RangeArgs /\ worksheet \in {0, 1}
  /\ out = NoOutput
  /\ formula1 = NoFormula
  /\ vtype = "absent"
  /\ wb = Workbook0
  /\ evalAddr = NoEval
  /\ pc = "idle"
  /\ resolved = NotCalled
  /\ validation = NoValidation
  /\ IdleSession /\ IdleDeps /\ IdleColumn /\ IdleConvert

\* extractor.py extract_all_formulas (cli.py line 52): get_worksheet_info
\* selects the active sheet, then every cell (row, col) is read
XlExtractAllFormulas ==
  /\ mode = "all"
  /\ backend = "xlwings"
  /\ out = NoOutput
  /\ worksheet' = 1
  /\ out' = FormulasOutput(FormulasIn(backend, sheets[1].grid, UsedExtent(sheets[1])))
  /\ UNCHANGED <<sheets, mode, sheetArg>>
  /\ UNCHANGED resolverVars
  /\ UNCHANGED laterVars

\* openpyxl_extractor.py extract_all_formulas
OpxExtractAllFormulas ==
  /\ mode = "all"
  /\ backend = "openpyxl"
  /\ out = NoOutput
  /\ worksheet' = 1
  /\ out' = FormulasOutput(FormulasIn(backend, sheets[1].grid, UsedExtent(sheets[1])))
  /\ UNCHANGED <<sheets, mode, sheetArg>>
  /\ UNCHANGED resolverVars
  /\ UNCHANGED laterVars

\* extractor.py extract_formulas_from_range (cli.py lines 46-50): reads
\* self.worksheet as it is; on None the attribute access raises and the
\* except branch returns []
XlExtractFormulasFromRange ==
  /\ mode = "range"
  /\ backend = "xlwings"
  /\ out = NoOutput
  /\ out' = IF worksheet = 0 THEN FormulasOutput(<<>>)
            ELSE FormulasOutput(FormulasIn(backend, sheets[worksheet].grid,
                                           ParseRect(sheetArg)))
  /\ UNCHANGED <<sheets, mode, sheetArg, worksheet>>
  /\ UNCHANGED resolverVars
  /\ UNCHANGED laterVars

\* openpyxl_extractor.py extract_formulas_from_range:
\* ws = self.worksheet or self._select_sheet(None)
OpxExtractFormulasFromRange ==
  /\ mode = "range"
  /\ backend = "openpyxl"
  /\ out = NoOutput
  /\ worksheet' = IF worksheet = 0 THEN 1 ELSE worksheet
  /\ out' = FormulasOutput(FormulasIn(backend, sheets[worksheet'].grid,
                                      ParseRect(sheetArg)))
  /\ UNCHANGED <<sheets, mode, sheetArg>>
  /\ UNCHANGED resolverVars
  /\ UNCHANGED laterVars

NextFormulas ==
  \/ XlExtractAllFormulas
  \/ OpxExtractAllFormulas
  \/ XlExtractFormulasFromRange
  \/ OpxExtractFormulasFromRange

SpecFormulas == InitFormulas /\ [][NextFormulas]_vars

(* ------------------------------------------------------------------ *)
(* Properties of 'all formulas' and range extraction                   *)
(* ------------------------------------------------------------------ *)

\* the rectangle the call is about
WalkedExtent ==
  IF mode = "all" THEN UsedExtent(sheets[1]) ELSE ParseRect(sheetArg)

\* a cell with a formula, or with a number other than zero
FormulaOrNumber(c) == c.kind \in {"formula", "number"}

\* the addresses of such cells in rectangle r, row-major
RECURSIVE CarriersFrom(_, _, _, _)
CarriersFrom(grid, r, row, col) ==
  IF row > r.maxRow THEN <<>>
  ELSE IF col > r.maxCol THEN CarriersFrom(grid, r, row + 1, r.minCol)
  ELSE (IF FormulaOrNumber(grid[<<row, col>>]) THEN <<(<<row, col>>)>> ELSE <<>>)
         \o CarriersFrom(grid, r, row, col + 1)

Carriers(grid, r) == CarriersFrom(grid, r, r.minRow, r.minCol)

Addresses(records) == [i \in 1..Len(records) |-> records[i].address]

\* C20: once 'all formulas' or range extraction has returned, in either
\* backend, the addresses of the records are exactly the cells of the walked
\* extent that carry a formula or a nonzero number, each once, row-major;
\* cells with text, nothing, zero or a non-numeric value are not among them.
\* Violated: a boolean TRUE passes isinstance(value, (int, float)), and the
\* xlwings range call reads a worksheet nobody selected.
C20_FormulaOrNonzeroNumber ==
  (out # NoOutput /\ out.kind = "formulas")
    => Addresses(out.formulas) = Carriers(sheets[1].grid, WalkedExtent)

(* ------------------------------------------------------------------ *)
(* Full-detail extraction of a sheet whose used range starts anywhere  *)
(* ------------------------------------------------------------------ *)

\* the top-left corner of the used range is at most (MaxOrigin, MaxOrigin)
MaxOrigin == 2

\* most rows and most columns of the used range
MaxExtent == 2

\* the used range of sheet sh: Excel's UsedRange, openpyxl's dimension
UsedRect(sh) ==
  [minRow |-> sh.top, maxRow |-> sh.top + sh.rows - 1,
   minCol |-> sh.left, maxCol |-> sh.left + sh.columns - 1]

InRect(r, row, col) ==
  r.minRow <= row /\ row <= r.maxRow /\ r.minCol <= col /\ col <= r.maxCol

\* the cell of sheet sh at the absolute position (row, col): worksheet.cells(row, col),
\* a cell of ws.iter_rows; outside the used range the cell is empty
CellAt(sh, row, col) ==
  IF InRect(UsedRect(sh), row, col)
  THEN [kind |-> sh.kinds[<<row - sh.top + 1, col - sh.left + 1>>],
        fault |-> IF sh.failing = <<row, col>> THEN "address" ELSE "ok"]
  ELSE [kind |-> "empty", fault |-> "ok"]

\* the nested loops of both walkers over rows 1..maxRow and columns 1..maxCol
RECURSIVE DetailsFrom(_, _, _, _, _)
DetailsFrom(b, sh, r, row, col) ==
  IF row > r.maxRow THEN <<>>
  ELSE IF col > r.maxCol THEN DetailsFrom(b, sh, r, row + 1, r.minCol)
  ELSE CellEntry(b, CellAt(sh, row, col), row, col)
         \o DetailsFrom(b, sh, r, row, col + 1)

UsedSheetRecord(name, used, rows, columns, cells) ==
  [name |-> name, used_range |-> used, rows |-> rows, columns |-> columns,
   cells |-> cells]

\* extractor.py extract_sheet_full_details: rows_count and cols_count are the
\* counts of the used range, the loops run from 1
XlUsedSheetDetails(sh) ==
  UsedSheetRecord(sh.name, UsedRect(sh), sh.rows, sh.columns,
                  DetailsFrom("xlwings", sh, Rect(<<1, 1>>, <<sh.rows, sh.columns>>), 1, 1))

\* openpyxl_extractor.py extract_sheet_full_details with get_worksheet_info:
\* rows and columns are ws.max_row and ws.max_column, used_range the dimension
OpxUsedSheetDetails(sh) ==
  LET r == UsedRect(sh)
  IN UsedSheetRecord(sh.name, r, r.maxRow, r.maxCol,
                     DetailsFrom("openpyxl", sh, Rect(<<1, 1>>, <<r.maxRow, r.maxCol>>), 1, 1))

\* no cell read fails, or the read of the address of one used cell does
Failing(top, left, rows, columns) ==
  {<<0, 0>>} \cup {<<top, left>>, <<top + rows - 1, left + columns - 1>>}

\* one sheet: every corner, every size, cells with and without content
InitExtent ==
  /\ backend \in Backends
  /\ \E top \in 1..MaxOrigin, left \in 1..MaxOrigin,
        rows \in 1..MaxExtent, columns \in 1..MaxExtent :
       \E kinds \in [(1..rows) \X (1..columns) -> {"number", "empty"}],
          failing \in Failing(top, left, rows, columns) :
         sheets = <<[name |-> <<"S">>, top |-> top, left |-> left, rows |-> rows,
                     columns |-> columns, kinds |-> kinds, failing |-> failing]>>
  /\ mode = "sheet"
  /\ sheetArg = <<"S">>
  /\ worksheet = 0
  /\ out = NoOutput
  /\ formula1 = NoFormula
  /\ vtype = "absent"
  /\ wb = Workbook0
  /\ evalAddr = NoEval
  /\ pc = "idle"
  /\ resolved = NotCalled
  /\ validation = NoValidation
  /\ IdleSession /\ IdleDeps /\ IdleColumn /\ IdleConvert

UsedOutput(rec) == [kind |-> "used", raised |-> FALSE, sheets |-> <<rec>>]

\* extractor.py extract_sheet_full_details(args.sheet) (cli.py line 42)
XlExtractUsedCells ==
  /\ backend = "xlwings"
  /\ out = NoOutput
  /\ worksheet' = 1
  /\ out' = UsedOutput(XlUsedSheetDetails(sheets[1]))
  /\ UNCHANGED <<sheets, mode, sheetArg>>
  /\ UNCHANGED resolverVars
  /\ UNCHANGED laterVars

\* openpyxl_extractor.py extract_sheet_full_details(args.sheet)
OpxExtractUsedCells ==
  /\ backend = "openpyxl"
  /\ out = NoOutput
  /\ worksheet' = 1
  /\ out' = UsedOutput(OpxUsedSheetDetails(sheets[1]))
  /\ UNCHANGED <<sheets, mode, sheetArg>>
  /\ UNCHANGED resolverVars
  /\ UNCHANGED laterVars

NextExtent == XlExtractUsedCells \/ OpxExtractUsedCells

SpecExtent == InitExtent /\ [][NextExtent]_vars

(* ------------------------------------------------------------------ *)
(* Properties of the walk over the used range                          *)
(* ------------------------------------------------------------------ *)

RectCells(r) == {p \in (r.minRow..r.maxRow) \X (r.minCol..r.maxCol) : TRUE}

RecordAddresses(rec) == {rec.cells[i].address : i \in 1..Len(rec.cells)}

WalkedUsedRange(rec, failing) ==
  /\ RecordAddresses(rec) = RectCells(rec.used_range) \ {failing}
  /\ failing = <<0, 0>> => rec.rows * rec.columns = Len(rec.cells)

\* C21: the sheet record of full-detail extraction holds one cell record per
\* cell of the used range it reports and none for a cell outside it, wherever
\* the used range starts, and rows x columns is the number of cell records
\* when no cell read fails.  Violated: both walkers start at row 1, column 1.
C21_WalksUsedRange ==
  (out # NoOutput /\ out.kind = "used")
    => WalkedUsedRange(out.sheets[1], sheets[1].failing)

(* ------------------------------------------------------------------ *)
(* Table-column sources                                                *)
(* ------------------------------------------------------------------ *)

\* the cells below the header row of table K
BodyCoords == {c \in Coords : c[1] > 1}

\* sheet S with the header cells of table K and the body values body
GridWithBody(body) == [c \in Coords |-> IF c \in BodyCoords THEN body[c] ELSE GridS[c]]

\* table K with its last row at row last: last = 1 is a table of the header alone
TableUpTo(last) == [TableK EXCEPT !.ref.maxRow = last]

\* Table[Column] sources: both columns, decorated, an unknown column, an
\* unknown table
TableSources ==
  {<<"K", "[", "C", "]">>, <<"K", "[", "D", "]">>, <<"=", "K", "[", "D", "]">>,
   <<" ", "K", "[", "C", "]", " ">>, <<"K", "[", "X", "]">>, <<"Q", "[", "C", "]">>}

\* a list rule whose source is a table column, over every content and every
\* row extent of the table
InitTables ==
  /\ backend \in Backends
  /\ evalAddr = NoEval
  /\ \E body \in [BodyCoords -> CellValues], last \in GridRows :
       wb = [Workbook0 EXCEPT !.grid[1] = GridWithBody(body),
                              !.tables = <<TableUpTo(last)>>]
  /\ vtype = "list"
  /\ formula1 \in {Text(t) : t \in TableSources}
  /\ pc = "ready"
  /\ resolved = NotCalled
  /\ validation = NoValidation
  /\ IdleWalker
  /\ IdleSession /\ IdleDeps /\ IdleColumn /\ IdleConvert

SpecTables == InitTables /\ [][Next]_vars

\* the table and the column a found source names
FoundTable == wb.tables[CHOOSE i \in 1..Len(wb.tables) : wb.tables[i].name = TableName(Inner)]

FoundColumn == IndexOf(FoundTable.cols, ColumnName(Inner))

HasDataRow(tbl) == tbl.ref.maxRow > tbl.ref.minRow

\* the values of the column below the header, top to bottom
ColumnValues == NonNull(RowMajor(wb, FoundTable.sheet, ColumnBody(FoundTable, FoundColumn)))

\* a table-column source whose table and column exist has been resolved
TableFound == ListResolved /\ KindTableColumn /\ TableExists(Inner)

\* C22: in both backends a Table[Column] source whose table and column exist
\* and whose table has a data row resolves to a list, the values of the
\* column below the header within the rows of the table, top to bottom.
\* Violated: the file-parsing backend reads .value of the row tuples, the
\* lookup raises and the source ends unresolved.
C22_TableColumnValues ==
  (TableFound /\ HasDataRow(FoundTable))
    => /\ resolved.tag = "list"
       /\ resolved.items = ColumnValues

(* ------------------------------------------------------------------ *)
(* cli.py main: the branch the arguments select                        *)
(* ------------------------------------------------------------------ *)

\* --sheet: absent, or the name of a sheet of the workbook
SheetOptions == {<<>>, <<"S">>, <<"T">>}

\* the parsed command line; dependencies and range stand for an option given
ArgSets ==
  [full : BOOLEAN, all_sheets : BOOLEAN, dependencies : BOOLEAN,
   range : BOOLEAN, sheet : SheetOptions]

\* a workbook of the sheets S and T, one of them active
SheetsWithActive(a) ==
  <<[name |-> <<"S">>, active |-> a = 1], [name |-> <<"T">>, active |-> a = 2]>>

\* workbook.sheets.active, workbook.active
ActiveSheet(shs) == CHOOSE i \in 1..Len(shs) : shs[i].active

\* workbook.sheets[sheet_name], workbook[sheet_name]
NamedSheet(shs, name) == CHOOSE i \in 1..Len(shs) : shs[i].name = name

\* get_worksheet_info / _select_sheet: the named sheet, or the active one
SelectSheet(shs, name) ==
  IF name # <<>> THEN NamedSheet(shs, name) ELSE ActiveSheet(shs)

\* the sheet the range and dependency calls read with current worksheet cur:
\* extractor.py uses self.worksheet as it is, and on None raises before any
\* cell is read (0); openpyxl_extractor.py falls back to the active sheet
SheetRead(b, shs, cur) ==
  IF b = "xlwings" THEN cur
  ELSE IF cur # 0 THEN cur ELSE ActiveSheet(shs)

SheetsReadAt(si) == IF si = 0 THEN {} ELSE {si}

InitCli ==
  /\ backend \in Backends
  /\ args \in ArgSets
  /\ \E a \in 1..2 : sheets = SheetsWithActive(a)
  /\ reads = {}
  /\ mode = "cli"
  /\ sheetArg = args.sheet
  /\ worksheet = 0
  /\ out = NoOutput
  /\ pc = "entered"
  /\ app = "none" /\ book = "none" /\ faults = {} /\ exc = "none"
  /\ formula1 = NoFormula /\ vtype = "absent" /\ wb = Workbook0
  /\ evalAddr = NoEval /\ resolved = NotCalled /\ validation = NoValidation
  /\ IdleDeps /\ IdleColumn /\ IdleConvert

CliUnchanged ==
  /\ UNCHANGED <<sheets, mode, sheetArg, out, backend, args>>
  /\ UNCHANGED <<app, book, faults, exc>>
  /\ UNCHANGED <<ruleVars, depsVars, columnVars, convertVars>>

\* cli.py line 40: extract_workbook_full_details selects every sheet in turn
CliWorkbookFull ==
  /\ pc = "entered"
  /\ args.full /\ args.all_sheets
  /\ worksheet' = Len(sheets)
  /\ reads' = 1..Len(sheets)
  /\ pc' = "exiting"
  /\ CliUnchanged

\* cli.py line 42: extract_sheet_full_details(args.sheet)
CliSheetFull ==
  /\ pc = "entered"
  /\ args.full /\ ~args.all_sheets
  /\ worksheet' = SelectSheet(sheets, args.sheet)
  /\ reads' = {worksheet'}
  /\ pc' = "exiting"
  /\ CliUnchanged

\* cli.py line 44: extract_formula_dependencies(args.dependencies)
CliDependencies ==
  /\ pc = "entered"
  /\ ~args.full /\ args.dependencies
  /\ worksheet' = SheetRead(backend, sheets, worksheet)
  /\ reads' = SheetsReadAt(worksheet')
  /\ pc' = "exiting"
  /\ CliUnchanged

\* cli.py lines 46-50: extract_formulas_from_range
CliRange ==
  /\ pc = "entered"
  /\ ~args.full /\ ~args.dependencies /\ args.range
  /\ worksheet' = SheetRead(backend, sheets, worksheet)
  /\ reads' = SheetsReadAt(worksheet')
  /\ pc' = "exiting"
  /\ CliUnchanged

\* cli.py line 52: extract_all_formulas(args.sheet)
CliAllFormulas ==
  /\ pc = "entered"
  /\ ~args.full /\ ~args.dependencies /\ ~args.range
  /\ worksheet' = SelectSheet(sheets, args.sheet)
  /\ reads' = {worksheet'}
  /\ pc' = "exiting"
  /\ CliUnchanged

NextCli ==
  \/ CliWorkbookFull
  \/ CliSheetFull
  \/ CliDependencies
  \/ CliRange
  \/ CliAllFormulas

SpecCli == InitCli /\ [][NextCli]_vars

(* ------------------------------------------------------------------ *)
(* Properties of the command line                                      *)
(* ------------------------------------------------------------------ *)

CliDone == mode = "cli" /\ pc = "exiting"

\* C23: a run with --all-sheets and neither --range nor --dependencies has
\* read every sheet of the workbook when the extraction returns, with and
\* without --full.  Violated: without --full the run takes the branch of
\* extract_all_formulas(args.sheet), which reads one sheet.
C23_AllSheetsProcessed ==
  (CliDone /\ args.all_sheets /\ ~args.range /\ ~args.dependencies)
    => reads = 1..Len(sheets)

RangeOrDependencies == ~args.full /\ (args.range \/ args.dependencies)

\* C26: when a run in range or dependencies mode has returned from the
\* extraction, the current worksheet is the sheet --sheet names (the active
\* sheet without --sheet), and cells were read from no other sheet.
\* Violated: neither branch hands args.sheet to the extractor.
C26_WorksheetSelected ==
  (CliDone /\ RangeOrDependencies)
    => /\ worksheet = SelectSheet(sheets, args.sheet)
       /\ reads \subseteq {SelectSheet(sheets, args.sheet)}

(* ------------------------------------------------------------------ *)
(* The fill colour of a cell                                           *)
(* ------------------------------------------------------------------ *)

\* the values a colour component takes in the inputs
ByteSamples == {0, 1, 127, 128, 255}

HexDigits == <<"0", "1", "2", "3", "4", "5", "6", "7", "8", "9",
               "A", "B", "C", "D", "E", "F">>

\* int(d, 16) of one digit
HexValue(d) == (CHOOSE k \in 1..Len(HexDigits) : HexDigits[k] = d) - 1

\* int(s, 16)
RECURSIVE ParseHex(_)
ParseHex(s) ==
  IF s = <<>> THEN 0
  ELSE 16 * ParseHex(SubSeq(s, 1, Len(s) - 1)) + HexValue(s[Len(s)])

\* x >> n
ShiftRight(x, n) == x \div (2 ^ n)

\* x & 255
LowByte(x) == x % 256

\* a cell without a fill: Interior.Color is None, fgColor.rgb is empty
NoFill == [set |-> FALSE, color |-> 0, rgb |-> <<>>]

NoColor == [present |-> FALSE, r |-> 0, g |-> 0, b |-> 0]

Rgb(r, g, b) == [present |-> TRUE, r |-> r, g |-> g, b |-> b]

\* extractor.py _get_cell_fill_color
XlGetCellFillColor(fill) ==
  IF ~fill.set THEN NoColor
  ELSE Rgb(LowByte(fill.color), LowByte(ShiftRight(fill.color, 8)),
           LowByte(ShiftRight(fill.color, 16)))

\* openpyxl_extractor.py _cell_basic_format, the fill_color entry
OpxFillColor(fill) ==
  IF ~fill.set THEN NoColor
  ELSE Rgb(ParseHex(SubSeq(fill.rgb, 1, 2)), ParseHex(SubSeq(fill.rgb, 3, 4)),
           ParseHex(SubSeq(fill.rgb, 5, 6)))

\* two hex digits of a byte, as the file stores them
HexPair(n) == <<HexDigits[(n \div 16) + 1], HexDigits[(n % 16) + 1]>>

\* Excel's colour integer of the components
ExcelColor(r, g, b) == r + 256 * g + 65536 * b

\* the fill of the cell as the backend sees it: the colour integer of the
\* live application, or the aRGB string of the file
Fills(b) ==
  {NoFill} \cup
  IF b = "xlwings"
  THEN {[set |-> TRUE, color |-> ExcelColor(r, g, bl), rgb |-> <<>>] :
          r \in ByteSamples, g \in ByteSamples, bl \in ByteSamples}
  ELSE {[set |-> TRUE, color |-> 0,
         rgb |-> HexPair(a) \o HexPair(r) \o HexPair(g) \o HexPair(bl)] :
          a \in ByteSamples, r \in ByteSamples, g \in ByteSamples, bl \in ByteSamples}

InitFill ==
  /\ backend \in Backends
  /\ \E fill \in Fills(backend) : sheets = <<[name |-> <<"S">>, fill |-> fill]>>
  /\ mode = "fill"
  /\ sheetArg = <<>>
  /\ worksheet = 1
  /\ out = NoOutput
  /\ formula1 = NoFormula
  /\ vtype = "absent"
  /\ wb = Workbook0
  /\ evalAddr = NoEval
  /\ pc = "idle"
  /\ resolved = NotCalled
  /\ validation = NoValidation
  /\ IdleSession /\ IdleDeps /\ IdleColumn /\ IdleConvert

FillOutput(color) == [kind |-> "fill", raised |-> FALSE, fill_color |-> color]

\* extractor.py _get_cell_fill_color for the cell
GetCellFillColor ==
  /\ mode = "fill"
  /\ backend = "xlwings"
  /\ out = NoOutput
  /\ out' = FillOutput(XlGetCellFillColor(sheets[1].fill))
  /\ UNCHANGED <<sheets, mode, sheetArg, worksheet>>
  /\ UNCHANGED resolverVars
  /\ UNCHANGED laterVars

\* openpyxl_extractor.py _cell_basic_format for the cell
CellBasicFormat ==
  /\ mode = "fill"
  /\ backend = "openpyxl"
  /\ out = NoOutput
  /\ out' = FillOutput(OpxFillColor(sheets[1].fill))
  /\ UNCHANGED <<sheets, mode, sheetArg, worksheet>>
  /\ UNCHANGED resolverVars
  /\ UNCHANGED laterVars

NextFill == GetCellFillColor \/ CellBasicFormat

SpecFill == InitFill /\ [][NextFill]_vars

(* ------------------------------------------------------------------ *)
(* Properties of the fill colour                                       *)
(* ------------------------------------------------------------------ *)

Byte == 0..255

\* the red, green and blue bytes of an aRGB string AARRGGBB
RedByte(rgb) == ParseHex(SubSeq(rgb, 3, 4))

GreenByte(rgb) == ParseHex(SubSeq(rgb, 5, 6))

BlueByte(rgb) == ParseHex(SubSeq(rgb, 7, 8))

FillReported == out # NoOutput /\ out.kind = "fill" /\ out.fill_color.present

\* C24: the fill colour reported for a cell has components in 0..255; in the
\* live-application backend they compose the colour integer, r + 256 g +
\* 65536 b; in the file-parsing backend they are the red, green and blue
\* bytes of the aRGB string.  Violated: the file-parsing backend reads the
\* first three bytes, alpha, red and green.
C24_FillColorComponents ==
  FillReported
    => LET c == out.fill_color
           fill == sheets[1].fill
       IN /\ c.r \in Byte /\ c.g \in Byte /\ c.b \in Byte
          /\ backend = "xlwings" => ExcelColor(c.r, c.g, c.b) = fill.color
          /\ backend = "openpyxl"
               => /\ c.r = RedByte(fill.rgb)
                  /\ c.g = GreenByte(fill.rgb)
                  /\ c.b = BlueByte(fill.rgb)

(* ------------------------------------------------------------------ *)
(* Properties of convert: every sheet keeps its own files              *)
(* ------------------------------------------------------------------ *)

ConvertedSheets == extract_sheets(data)

PairwiseDistinct(s) == \A i, j \in 1..Len(s) : i # j => s[i] # s[j]

SheetNamesOf(shs) == [i \in 1..Len(shs) |-> SheetNameOf(shs[i])]

SheetKeys(shs) == [i \in 1..Len(shs) |-> sanitize_filename(SheetNameOf(shs[i]).s)]

\* the files of sheet entry are on disk as convert wrote them for that sheet
OwnFilesKept(entry) ==
  LET own == SheetFiles(OutRoot(inputStem), entry)
  IN \A p \in DOMAIN own : p \in DOMAIN fileSystem /\ fileSystem[p] = own[p]

\* C25: after a completed convert of sheets with pairwise distinct names,
\* the sheets have pairwise distinct directories and file-map keys, the files
\* of every sheet are on disk as written for that sheet, and row i of the
\* index links to the files of sheet i.  Violated: distinct names may
\* sanitize to one key ('a b' and 'a_b').
C25_SheetsKeepOwnFiles ==
  (pc = "done" /\ exit = "ok" /\ PairwiseDistinct(SheetNamesOf(ConvertedSheets)))
    => /\ PairwiseDistinct(SheetKeys(ConvertedSheets))
       /\ \A i \in 1..Len(ConvertedSheets) :
            /\ OwnFilesKept(ConvertedSheets[i])
            /\ indexRows[i].links
                 = IndexLinks(SheetKeys(ConvertedSheets)[i],
                              FileMapEntry(OutRoot(inputStem), ConvertedSheets[i]))
=============================================================================
